---- MODULE Spec2Model ----
(***************************************************************************)
(* State-machine model of the website style-extraction pipeline            *)
(* (src/src/lib/scraper.ts, src/src/lib/storage.ts) and of the AI          *)
(* generation client (lib/ai.ts, held in src/unnamed/part_002).            *)
(*                                                                         *)
(* Time is the value Date.now() returns, in milliseconds.  A URL is a      *)
(* sequence of text pieces (<<"https:", "//", "site.com", "/a.png">>), the *)
(* empty string is <<>> and the JavaScript value undefined is Undefined.   *)
(***************************************************************************)
EXTENDS Integers, Sequences, FiniteSets, TLC

VARIABLES
    now,            \* Date.now()
    \* ---- scrapeWebsite / makeScrapingBeeRequest ----
    sbApiKey,       \* import.meta.env.VITE_SCRAPINGBEE_API_KEY is set
    urlValid,       \* validateUrl(url.trim())
    sPc,            \* position of the scrapeWebsite call
    retryCount,     \* retryCount parameter of makeScrapingBeeRequest
    wakeAt,         \* earliest firing time of the pending setTimeout
    failedAt,       \* time of the last failed page request
    sbRequests,     \* page requests sent to the rendering proxy
    sbFailures,     \* page requests that failed inside the try block
    startTime,      \* startTime of scrapeWebsite
    usingDefaultStyles,
    scrapeError,    \* the error caught by scrapeWebsite, "" when none
    html,           \* the fetched page: its stylesheet links and style tags
    extracted,      \* what the extractors returned
    assets,         \* rows of the assets table
    processedAssets,\* what storeProjectAssets returned
    pendingLog,     \* the ScrapingLog handed to logScrapingResult
    logInserts,     \* outcome of every scraping_logs insert issued
    scraping_logs,  \* rows of the scraping_logs table
    steps,          \* pipeline steps run so far, in order
    scrapeResult,   \* the WebsiteStyle returned, NoResult before
    \* ---- lib/ai.ts: generateLandingPage / updateLandingPage ----
    openaiKey,      \* import.meta.env.VITE_OPENAI_API_KEY is set
    openaiClient,   \* the cached client exists
    lastRequestTime,
    gen,            \* per caller: the state of its generation call
    callsStarted,   \* generation calls started so far
    providerLog,    \* time of every provider request, in issue order
    overlap,        \* some call started while another was in flight
    \* ---- makeScrapingBeeRequest: stylesheet inlining ----
    cssPc,          \* position of the inlining
    cssSite,        \* the page's stylesheet links and the sheets' imports
    cssFetches,     \* per fetchExternalStylesheet call: sheet and outcome
    cssResponses,   \* the calls in the order their responses arrived
    cssHtml,        \* the document: its stylesheet links and style tags
    \* ---- lib/storage.ts: storeProjectAssets ----
    saPc,           \* position of the storeProjectAssets call
    saInput,        \* its assets argument
    saLogo,         \* storedAssets.logo
    saStored,       \* per input image: what downloadAndStoreImage returned
    saInserts,      \* the assets inserts issued, with their outcomes
    saRows,         \* rows of the assets table, in the order they were written
    saResult,       \* what the call returned
    \* ---- functions called on their own ----
    fnCall,         \* the function called and its arguments
    fnDone,         \* the call has returned
    fnResult,       \* what it returned
    \* ---- lib/supabase.ts: createVersion / setCurrentVersion ----
    versions,       \* rows of the versions table; the id of a row is its index
    verCall,        \* per caller: the state of its call
    verStarted      \* calls started so far

scrapeVars == <<sbApiKey, urlValid, sPc, retryCount, wakeAt, failedAt, sbRequests,
                sbFailures, startTime, usingDefaultStyles, scrapeError,
                html, extracted, assets, processedAssets, pendingLog, logInserts,
                scraping_logs, steps, scrapeResult>>

genVars == <<openaiKey, openaiClient, lastRequestTime, gen, callsStarted,
             providerLog, overlap>>

cssVars == <<cssPc, cssSite, cssFetches, cssResponses, cssHtml>>

storeVars == <<saPc, saInput, saLogo, saStored, saInserts, saRows, saResult>>

fnVars == <<fnCall, fnDone, fnResult>>

versionVars == <<versions, verCall, verStarted>>

vars == <<now, scrapeVars, genVars, cssVars, storeVars, fnVars, versionVars>>

-----------------------------------------------------------------------------
(* Bounds *)

MaxTicks == 4
MaxFailAt == 2
MaxGenTicks == 8
MaxCalls == 2

-----------------------------------------------------------------------------
(* Values *)

Undefined == <<"undefined">>
EmptyUrl == <<>>

Take(s, n) == SubSeq(s, 1, IF n < Len(s) THEN n ELSE Len(s))
Drop(s, n) == SubSeq(s, n + 1, Len(s))

IsPrefix(a, b) == Len(a) <= Len(b) /\ SubSeq(b, 1, Len(a)) = a

Unsplash(id) == <<"https:", "//", "images.unsplash.com", id, "?w=1200&q=80">>

FALLBACK_IMAGES ==
    << Unsplash("/photo-1606857521015-7f9fcf423740"),
       Unsplash("/photo-1618005182384-a83a8bd57fbe"),
       Unsplash("/photo-1551434678-e076c223a692"),
       Unsplash("/photo-1506765515384-028b60a970df"),
       Unsplash("/photo-1498050108023-c5249f4df085") >>

DEFAULT_STYLE ==
    [ colors |-> <<"#1a1a1a", "#ffffff", "#3b82f6", "#4F46E5", "#7C3AED">>,
      fonts  |-> <<"system-ui", "-apple-system", "sans-serif">>,
      images |-> FALLBACK_IMAGES,
      logo   |-> Undefined,
      metaDescription |-> "undefined",
      styles |-> "DEFAULT_STYLE.styles" ]

NoResult == [ colors |-> <<>>, fonts |-> <<>>, images |-> <<>>,
              logo |-> Undefined, metaDescription |-> "undefined",
              styles |-> "none" ]

-----------------------------------------------------------------------------
(* URLs: scraper.ts resolveUrl, storage.ts downloadAndStoreImage *)

Schemes == {"http:", "https:", "ftp:", "data:"}
WebContainerHost == "local-credentialless.webcontainer-api.io"
UnsplashHost == "images.unsplash.com"
ImageExtPaths == {"/hero.jpg", "/b.png", "/assets/c.webp", "/logo.svg"}
QueryPieces == {"?w=1200&q=80", "?v=2"}

Includes(u, piece) == \E i \in 1..Len(u) : u[i] = piece
StartsWith(u, prefix) ==
    /\ Len(u) >= Len(prefix)
    /\ SubSeq(u, 1, Len(prefix)) = prefix

\* new URL(u) succeeds: u is absolute and its host is well formed
Parses(u) == /\ Len(u) >= 3
             /\ u[1] \in Schemes
             /\ u[2] = "//"
             /\ u[3] # "["

Origin(base) == SubSeq(base, 1, 3)

\* new URL(u, base).href; <<"throws">> when the constructor throws
NewURL(u, base) ==
    IF Parses(u) THEN u
    ELSE IF Len(u) > 0 /\ u[1] \in Schemes THEN <<"throws">>
    ELSE IF ~Parses(base) THEN <<"throws">>
    ELSE IF StartsWith(u, <<"//">>) THEN
         (IF Len(u) >= 2 /\ u[2] # "[" THEN <<base[1]>> \o u ELSE <<"throws">>)
    ELSE Origin(base) \o u

\* urlParts.slice(urlParts.indexOf('assets')).join('/')
AssetPath(u) ==
    IF \E i \in 1..Len(u) : u[i] = "/assets/c.webp"
    THEN <<"/assets/c.webp">>
    ELSE IF u = <<>> THEN <<>> ELSE <<u[Len(u)]>>

\* mutant: an error of the URL constructor leaves the function
resolveUrl_NoCatch(baseUrl, url) ==
    IF url = <<>> THEN <<>>
    ELSE IF StartsWith(url, <<"data:">>) THEN <<>>
    ELSE IF Includes(url, WebContainerHost) THEN
         (IF NewURL(AssetPath(url), baseUrl) = <<"throws">> THEN <<"throws">>
          ELSE NewURL(AssetPath(url), baseUrl))
    ELSE IF StartsWith(url, <<"http:", "//">>) \/ StartsWith(url, <<"https:", "//">>)
         THEN url
    ELSE IF StartsWith(url, <<"//">>) THEN <<"https:">> \o url
    ELSE IF NewURL(url, baseUrl) = <<"throws">> THEN <<"throws">>
    ELSE NewURL(url, baseUrl)

\* resolveUrl (lines 251-269)
resolveUrl(baseUrl, url) ==
    IF url = <<>> THEN <<>>
    ELSE IF StartsWith(url, <<"data:">>) THEN <<>>
    ELSE IF Includes(url, WebContainerHost) THEN
         (IF NewURL(AssetPath(url), baseUrl) = <<"throws">> THEN <<>>
          ELSE NewURL(AssetPath(url), baseUrl))
    ELSE IF StartsWith(url, <<"http:", "//">>) \/ StartsWith(url, <<"https:", "//">>)
         THEN url
    ELSE IF StartsWith(url, <<"//">>) THEN <<"https:">> \o url
    ELSE IF NewURL(url, baseUrl) = <<"throws">> THEN <<>>
    ELSE NewURL(url, baseUrl)

isValidImageUrl(url) ==
    IF StartsWith(url, <<"data:">>) THEN FALSE
    ELSE IF Includes(url, UnsplashHost) THEN TRUE
    ELSE IF ~Parses(url) THEN FALSE
    ELSE Len(url) >= 4 /\ url[4] \in ImageExtPaths

\* null is Undefined
downloadAndStoreImage(url, bucketExists) ==
    IF StartsWith(url, <<"data:">>) THEN Undefined
    ELSE IF Includes(url, UnsplashHost) THEN
         (IF \E i \in 1..Len(url) : url[i] \in QueryPieces
          THEN url ELSE url \o <<"?w=1200&q=80">>)
    ELSE IF ~isValidImageUrl(url) THEN Undefined
    ELSE IF ~bucketExists THEN Undefined
    ELSE url

STORAGE_FALLBACK_IMAGES ==
    << Unsplash("/photo-1606857521015-7f9fcf423740"),
       Unsplash("/photo-1618005182384-a83a8bd57fbe") >>

Truthy(u) == u # Undefined /\ u # <<>>

RECURSIVE FilterTruthy(_)
FilterTruthy(s) ==
    IF s = <<>> THEN <<>>
    ELSE (IF Truthy(Head(s)) THEN <<Head(s)>> ELSE <<>>) \o FilterTruthy(Tail(s))

RECURSIVE ImageRows(_, _, _, _)
ImageRows(stored, i, projectId, skip) ==
    IF i > Len(stored) THEN <<>>
    ELSE (IF Truthy(stored[i]) /\ i # skip
          THEN <<[project_id |-> projectId, type |-> "image", url |-> stored[i]]>>
          ELSE <<>>)
         \o ImageRows(stored, i + 1, projectId, skip)

NoFailure == [kind |-> "none", at |-> 0]

\* One call of storeProjectAssets.  failure names the assets insert that fails
\* (at = 0 is the logo's, at = i the i-th image's) and how: "error" is an
\* error result, "throw" a rejected promise.  rows are the rows inserted.
storeProjectAssets(projectId, in, bucketExists, failure) ==
    LET storedLogo == IF Truthy(in.logo)
                      THEN downloadAndStoreImage(in.logo, bucketExists)
                      ELSE Undefined
        logoRows   == IF Truthy(storedLogo) /\ failure.at # 0
                      THEN <<[project_id |-> projectId, type |-> "logo", url |-> storedLogo]>>
                      ELSE <<>>
        logoThrows == Truthy(storedLogo) /\ failure = [kind |-> "throw", at |-> 0]
        stored     == [i \in 1..Len(in.images) |->
                          downloadAndStoreImage(in.images[i], bucketExists)]
        imgThrows  == /\ failure.kind = "throw"
                      /\ failure.at \in 1..Len(stored)
                      /\ Truthy(stored[failure.at])
        kept       == FilterTruthy(stored)
    IN  IF logoThrows
        THEN [throws |-> TRUE, rows |-> <<>>, images |-> <<>>, logo |-> Undefined]
        ELSE [throws |-> imgThrows,
              rows   |-> logoRows \o ImageRows(stored, 1, projectId, failure.at),
              images |-> IF Len(kept) = 0 THEN STORAGE_FALLBACK_IMAGES ELSE kept,
              logo   |-> IF Truthy(storedLogo) THEN storedLogo ELSE Undefined]

-----------------------------------------------------------------------------
(* scraper.ts: the scraping log *)

ProjectId == "project-1"
PageUrl == <<"https:", "//", "site.com">>

NoLog == [success |-> FALSE, assets_found |-> [colors |-> 0, fonts |-> 0,
          images |-> 0, logo |-> FALSE, styles |-> FALSE], errors |-> <<>>,
          duration_ms |-> 0, retries |-> 0, using_default_styles |-> FALSE]

SuccessLog(ex, processed, duration, usingDefault) ==
    [success |-> TRUE,
     assets_found |-> [colors |-> Len(ex.colors), fonts |-> Len(ex.fonts),
                       images |-> Len(processed.images),
                       logo |-> Truthy(processed.logo), styles |-> TRUE],
     errors |-> <<>>,
     duration_ms |-> duration,
     retries |-> 0,
     using_default_styles |-> usingDefault]

QuotaLog(duration, usingDefault) ==
    [success |-> FALSE,
     assets_found |-> [colors |-> Len(DEFAULT_STYLE.colors),
                       fonts |-> Len(DEFAULT_STYLE.fonts),
                       images |-> Len(FALLBACK_IMAGES),
                       logo |-> FALSE, styles |-> TRUE],
     errors |-> <<"API calls limit reached - using default styles">>,
     duration_ms |-> duration,
     retries |-> 0,
     using_default_styles |-> usingDefault]

\* mutant: the failure log carries no error message
ErrorLog_NoMessage(errorMessage, duration, usingDefault) ==
    [success |-> FALSE,
     assets_found |-> [colors |-> 0, fonts |-> 0, images |-> 0,
                       logo |-> FALSE, styles |-> FALSE],
     errors |-> <<>>,
     duration_ms |-> duration,
     retries |-> 0,
     using_default_styles |-> usingDefault]

ErrorLog(errorMessage, duration, usingDefault) ==
    [success |-> FALSE,
     assets_found |-> [colors |-> 0, fonts |-> 0, images |-> 0,
                       logo |-> FALSE, styles |-> FALSE],
     errors |-> <<errorMessage>>,
     duration_ms |-> duration,
     retries |-> 0,
     using_default_styles |-> usingDefault]

\* mutant: the catch block logs without setting usingDefaultStyles
CatchUsingDefaultStyles_Unset == FALSE

\* the catch block of scrapeWebsite sets usingDefaultStyles before it logs
CatchUsingDefaultStyles == TRUE

FailureLog(errorMessage, duration) ==
    IF errorMessage = "API_LIMIT_REACHED"
    THEN QuotaLog(duration, CatchUsingDefaultStyles)
    ELSE ErrorLog(errorMessage, duration, CatchUsingDefaultStyles)

\* mutant: logScrapingResult without its try/catch
logScrapingResult_NoCatch(rows, projectId, log, outcome) ==
    [rows   |-> IF outcome = "ok"
                THEN Append(rows, [project_id |-> projectId,
                                   success |-> log.success,
                                   assets_found |-> log.assets_found,
                                   errors |-> log.errors,
                                   duration_ms |-> log.duration_ms,
                                   retries |-> log.retries,
                                   using_default_styles |-> log.using_default_styles])
                ELSE rows,
     raised |-> outcome = "throw"]

\* logScrapingResult: the insert is inside try/catch, so nothing is raised;
\* the row exists only when the insert succeeded
logScrapingResult(rows, projectId, log, outcome) ==
    [rows   |-> IF outcome = "ok"
                THEN Append(rows, [project_id |-> projectId,
                                   success |-> log.success,
                                   assets_found |-> log.assets_found,
                                   errors |-> log.errors,
                                   duration_ms |-> log.duration_ms,
                                   retries |-> log.retries,
                                   using_default_styles |-> log.using_default_styles])
                ELSE rows,
     raised |-> FALSE]

-----------------------------------------------------------------------------
(* lib/ai.ts: constants and pure functions *)

MIN_REQUEST_INTERVAL == 20000
MAX_RETRIES == 3
RETRY_DELAY == 5000

\* Date.now() when the model starts: later than MIN_REQUEST_INTERVAL, as
\* every real clock is, so that lastRequestTime = 0 delays no first request
StartOfTime == MIN_REQUEST_INTERVAL

Callers == {1, 2}

\* Generated text is a sequence of characters: "b" a backtick, "n" a line
\* break, "s" a blank, "h" the text html, "x" any other character.
Backticks3 == <<"b", "b", "b">>
Whitespace == {"n", "s"}

\* the first replace of line 204: an opening fence (three backticks and an
\* optional html) at the start of a line
RECURSIVE StripOpeningFence(_, _)
StripOpeningFence(code, atLineStart) ==
    IF code = <<>> THEN <<>>
    ELSE IF atLineStart /\ StartsWith(code, Backticks3)
    THEN LET rest == Drop(code, 3)
         IN  StripOpeningFence(IF rest # <<>> /\ Head(rest) = "h"
                               THEN Tail(rest) ELSE rest, FALSE)
    ELSE <<Head(code)>> \o StripOpeningFence(Tail(code), Head(code) = "n")

\* the replace of line 205: three backticks at the end of a line
RECURSIVE StripClosingFence(_)
StripClosingFence(code) ==
    IF code = <<>> THEN <<>>
    ELSE IF StartsWith(code, Backticks3) /\ (Len(code) = 3 \/ code[4] = "n")
    THEN StripClosingFence(Drop(code, 3))
    ELSE <<Head(code)>> \o StripClosingFence(Tail(code))

\* the replace of line 206: one backtick at the start of the text and one at
\* its end
StripSingleBackticks(code) ==
    LET t == IF code # <<>> /\ Head(code) = "b" THEN Tail(code) ELSE code
    IN  IF t # <<>> /\ t[Len(t)] = "b" THEN SubSeq(t, 1, Len(t) - 1) ELSE t

RECURSIVE TrimStart(_)
TrimStart(code) ==
    IF code # <<>> /\ Head(code) \in Whitespace THEN TrimStart(Tail(code)) ELSE code

RECURSIVE TrimEnd(_)
TrimEnd(code) ==
    IF code # <<>> /\ code[Len(code)] \in Whitespace
    THEN TrimEnd(SubSeq(code, 1, Len(code) - 1)) ELSE code

\* mutant: only the start is trimmed
Trim_StartOnly(code) == TrimStart(code)

\* String.prototype.trim (line 207)
Trim(code) == TrimEnd(TrimStart(code))

cleanGeneratedCode(code) ==
    Trim(StripSingleBackticks(StripClosingFence(StripOpeningFence(code, TRUE))))

UndefinedStyle == [ colors |-> <<>>, fonts |-> <<>>, images |-> <<>>,
                    logo |-> Undefined, metaDescription |-> "undefined",
                    styles |-> "undefined" ]

\* a || b on strings
OrElse(a, b) == IF a # "" /\ a # "undefined" THEN a ELSE b
At(seq, i) == IF i <= Len(seq) THEN seq[i] ELSE "undefined"

\* getFallbackTemplate(style): the template with the style's values filled in
getFallbackTemplate(style) ==
    << "<!DOCTYPE html>",
       OrElse(style.metaDescription, "Transform your business with our powerful solution"),
       OrElse(At(style.colors, 1), "#4F46E5"),
       OrElse(At(style.colors, 2), "#1F2937"),
       OrElse(At(style.colors, 3), "#F9FAFB"),
       OrElse(At(style.fonts, 1), "system-ui, -apple-system, sans-serif"),
       "</html>" >>

\* error messages are sequences of text pieces
KeyMissingMessage == <<"OpenAI API key is not configured">>
EmptyContentMessage(kind) ==
    IF kind = "generate" THEN <<"Failed to generate landing page content">>
    ELSE <<"Failed to update landing page content">>
DefaultFailureMessage(kind) ==
    IF kind = "generate" THEN <<"Failed to generate content">>
    ELSE <<"Failed to update content">>

\* mutant: every error is retried
IsRetryable_Always(kind, message) == TRUE

\* lines 316-320 (generateLandingPage) and line 582 (updateLandingPage)
IsRetryable(kind, message) ==
    IF kind = "generate"
    THEN \/ Includes(message, "rate_limit")
         \/ Includes(message, "timeout")
         \/ Includes(message, "network")
         \/ Includes(message, "internal_error")
    ELSE Includes(message, "rate_limit")

\* mutant: one attempt too many
CanRetry_OffByOne(retries) == retries <= MAX_RETRIES

\* retries < MAX_RETRIES: the loop condition and the test before the delay
CanRetry(retries) == retries < MAX_RETRIES

\* mutant: the sleep is the retry delay, not the rest of the interval
RateLimitDelay_RetryDelay(timeSinceLastRequest) ==
    IF timeSinceLastRequest < MIN_REQUEST_INTERVAL THEN RETRY_DELAY ELSE 0

\* the time waitForRateLimit sleeps, 0 when it does not sleep
RateLimitDelay(timeSinceLastRequest) ==
    IF timeSinceLastRequest < MIN_REQUEST_INTERVAL
    THEN MIN_REQUEST_INTERVAL - timeSinceLastRequest
    ELSE 0

\* lines 335-338 and 591-594: what a failed call returns
FailureResult(kind, style, lastError) ==
    [html  |-> <<>>,
     error |-> IF lastError # <<>> /\ lastError # <<"null">>
               THEN lastError ELSE DefaultFailureMessage(kind)]

SuccessResult(generatedCode) ==
    [html |-> cleanGeneratedCode(generatedCode), error |-> <<"undefined">>]

-----------------------------------------------------------------------------
(* scraper.ts: makeScrapingBeeRequest *)

BACKOFF_MS == 2000
MAX_FETCH_RETRIES == 2
QUOTA_STATUS == 401
QuotaMarker == "API calls limit reached"

\* error bodies of the proxy, as sequences of text pieces
ErrorBodies == { <<"Server error">>, <<"Monthly ", QuotaMarker, ".">> }

RECURSIVE Join(_)
Join(pieces) == IF pieces = <<>> THEN "" ELSE Head(pieces) \o Join(Tail(pieces))

NoHtml == [links |-> <<>>, styleTags |-> <<>>]

FetchOutcomes ==
    {[type |-> "ok", links |-> ls, status |-> 200, body |-> <<"html">>] :
        ls \in {<<>>, <<"a.css">>}}
    \cup {[type |-> "reject", links |-> <<>>, status |-> 0, body |-> <<>>]}
    \cup {[type |-> "http", links |-> <<>>, status |-> st, body |-> b] :
            st \in {401, 429}, b \in ErrorBodies}

\* the test of lines 172-174 on a non-success response
IsQuotaResponse(status, errorText) ==
    status = QUOTA_STATUS /\ Includes(errorText, QuotaMarker)

FetchErrorMessage(o) ==
    IF o.type = "reject" THEN "Failed to fetch"
    ELSE IF IsQuotaResponse(o.status, o.body) THEN "API_LIMIT_REACHED"
    ELSE "ScrapingBee API error: " \o ToString(o.status) \o " - " \o Join(o.body)

\* mutant: one retry too many
ShouldRetry_OffByOne(message, count) ==
    message # "API_LIMIT_REACHED" /\ count <= MAX_FETCH_RETRIES

\* the catch block of lines 218-231 retries the request
ShouldRetry(message, count) ==
    message # "API_LIMIT_REACHED" /\ count < MAX_FETCH_RETRIES

BackoffDelay(count) == BACKOFF_MS * (count + 1)

-----------------------------------------------------------------------------
(* scraper.ts: scrapeWebsite *)

\* mutant: the page fetch is made before the try block is entered
InTry_FetchOutside == {"inline", "extract", "store", "logSuccess"}

\* positions of scrapeWebsite that lie inside its try block (lines 497-570)
InTry == {"request", "awaitResponse", "backoff", "inline", "extract",
          "store", "logSuccess"}

Img1 == <<"https:", "//", "site.com", "/hero.jpg">>
Img2 == <<"http:", "//", "cdn.site.com", "/b.png">>
ImgNoExt == <<"https:", "//", "site.com", "/photo">>
ImgFtp == <<"ftp:", "//", "site.com", "/hero.jpg">>
ImgUnsplash == <<"https:", "//", "images.unsplash.com", "/photo-1">>
LogoSvg == <<"https:", "//", "site.com", "/logo.svg">>
LogoNoExt == <<"https:", "//", "site.com", "/brand">>

ImgRel == <<"/hero.jpg">>
Img3 == <<"https:", "//", "site.com", "/b.png">>
DataUrl == <<"data:", "image/png;base64,AAAA">>
LogoRel == <<"/logo.svg">>
LogoFtp == <<"ftp:", "//", "site.com", "/logo.svg">>

\* doc.baseURI of a document made by DOMParser: the address of the page that
\* runs the scraper
DocBaseURI == <<"http:", "//", "localhost:5173">>

MAX_COLORS == 5
MAX_FONTS == 3
MAX_IMAGES == 5

\* src.includes('logo')
LogoPieces == {"/logo.svg"}
ContainsLogo(u) == \E i \in 1..Len(u) : u[i] \in LogoPieces

\* the insertion order of a Set: the first occurrence of every element
RECURSIVE SetOrder(_, _)
SetOrder(s, seen) ==
    IF s = <<>> THEN <<>>
    ELSE IF Head(s) \in seen THEN SetOrder(Tail(s), seen)
    ELSE <<Head(s)>> \o SetOrder(Tail(s), seen \cup {Head(s)})

\* mutant: extractColors returns every color it found
extractColors_NoSlice(matches) == SetOrder(matches, {})

\* extractColors (lines 423-457) on the color matches of the document, in
\* document order; an array is never falsy, so the default is never taken
extractColors(matches) == Take(SetOrder(matches, {}), MAX_COLORS)

\* extractFonts (lines 459-489) on the font families found
extractFonts(families) == Take(SetOrder(families, {}), MAX_FONTS)

\* findLogo (lines 271-345) on the src of the image its selectors pick,
\* Undefined when they pick none
findLogo(src) ==
    IF Truthy(src) THEN resolveUrl(DocBaseURI, src) ELSE Undefined

\* findImages (lines 347-421) on the srcs its selectors pick, in order
findImages(srcs) ==
    Take(SelectSeq(SetOrder([i \in 1..Len(srcs) |-> resolveUrl(DocBaseURI, srcs[i])], {}),
                   LAMBDA src : ~ContainsLogo(src)),
         MAX_IMAGES)

\* what the fetched document holds: its color matches, font families and
\* meta description
DocumentStyles ==
    { [colors |-> <<>>, fonts |-> <<>>, metaDescription |-> "undefined"],
      [colors |-> <<"#ff0000">>, fonts |-> <<"Inter">>, metaDescription |-> "A site"],
      [colors |-> <<"#ff0000", "#00ff00", "#ff0000", "#0000ff", "#111111",
                    "#222222", "#333333">>,
       fonts  |-> <<"Inter", "Roboto", "Inter", "Lato", "Georgia">>,
       metaDescription |-> "A site"] }

\* the src of the image the logo selectors pick; Img2 is a header image
\* whose src holds the brand but not the text logo: header img[src*=brand]
\* picks it (line 283), and so does the hero selector of findImages (line 354)
DocumentLogos == {Undefined, LogoRel, DataUrl, LogoSvg, LogoNoExt, LogoFtp, Img2}

\* the srcs the image selectors pick
DocumentImages ==
    { <<>>, <<DataUrl>>, <<Img1>>, <<ImgRel, DataUrl, ImgNoExt>>,
      <<Img1, Img2, ImgNoExt, ImgFtp, ImgUnsplash>>,
      <<Img1, Img1, LogoSvg, Img2, ImgNoExt, ImgFtp, ImgUnsplash, Img3>> }

\* what extractColors, extractFonts, findLogo, findImages and the meta
\* description lookup return for the documents (lines 505-521)
ExtractionOutcomes ==
    { [ colors |-> extractColors(st.colors),
        fonts  |-> extractFonts(st.fonts),
        logoUrl |-> findLogo(logoSrc),
        imageUrls |-> findImages(imageSrcs),
        metaDescription |-> st.metaDescription ] :
      st \in DocumentStyles, logoSrc \in DocumentLogos, imageSrcs \in DocumentImages }

NoExtraction == [colors |-> <<>>, fonts |-> <<>>, logo |-> Undefined,
                 scraped |-> <<>>, images |-> <<>>,
                 metaDescription |-> "undefined"]

NoAssets == [images |-> <<>>, logo |-> Undefined]

\* lines 516-531: logo, images and finalImages
ScrapedLogo(url, ex) ==
    IF Truthy(ex.logoUrl) THEN resolveUrl(url, ex.logoUrl) ELSE Undefined

ScrapedImages(url, ex) ==
    FilterTruthy([i \in 1..Len(ex.imageUrls) |-> resolveUrl(url, ex.imageUrls[i])])

\* mutant: the scraped images are not padded with the fallback images
FinalImages_NoPadding(images) == Take(images, 5)

FinalImages(images) ==
    Take(images \o Drop(FALLBACK_IMAGES,
                        IF Len(images) < Len(FALLBACK_IMAGES)
                        THEN Len(images) ELSE Len(FALLBACK_IMAGES)), 5)

\* lines 559-566
MergedResult(ex) ==
    [ colors |-> IF Len(ex.colors) > 0 THEN ex.colors ELSE DEFAULT_STYLE.colors,
      fonts  |-> IF Len(ex.fonts) > 0 THEN ex.fonts ELSE DEFAULT_STYLE.fonts,
      images |-> ex.images,
      logo   |-> ex.logo,
      metaDescription |-> ex.metaDescription,
      styles |-> DEFAULT_STYLE.styles ]

\* the pipeline steps entered when an error is raised at position pos
StepsAt(pos) ==
    IF pos = "request" /\ steps = <<>> THEN <<"Fetching">>
    ELSE IF pos = "extract" THEN steps \o <<"Parsing", "Extracting">>
    ELSE steps

\* mutant: an error of the page fetch is ignored and the pipeline goes on
Raise_FetchErrorIgnored(pos, message) ==
    /\ scrapeError' = message
    /\ IF pos \in {"request", "awaitResponse"}
       THEN /\ sPc' = "extract"
            /\ steps' = StepsAt(pos)
            /\ UNCHANGED <<usingDefaultStyles, pendingLog>>
       ELSE /\ usingDefaultStyles' = CatchUsingDefaultStyles
            /\ pendingLog' = FailureLog(message, now - startTime')
            /\ sPc' = "logFailure"
            /\ steps' = Append(StepsAt(pos), "Logging")

\* An error raised at position pos of scrapeWebsite: inside the try block the
\* catch block (lines 571-619) builds the failure log and issues its insert,
\* elsewhere the error leaves scrapeWebsite.
Raise(pos, message) ==
    /\ scrapeError' = message
    /\ IF pos \in InTry
       THEN /\ usingDefaultStyles' = CatchUsingDefaultStyles
            /\ pendingLog' = FailureLog(message, now - startTime')
            /\ sPc' = "logFailure"
            /\ steps' = Append(StepsAt(pos), "Logging")
       ELSE /\ sPc' = "threw"
            /\ UNCHANGED <<usingDefaultStyles, pendingLog, steps>>

\* makeScrapingBeeRequest(url, true, count) up to its fetch (lines 136-165)
EnterRequest(count) ==
    IF ~sbApiKey
    THEN /\ Raise("request", "ScrapingBee API key is not configured")
         /\ UNCHANGED sbRequests
    ELSE IF ~urlValid
    THEN /\ Raise("request", "Invalid URL format. Please use http:// or https://")
         /\ UNCHANGED sbRequests
    ELSE /\ sbRequests' = Append(sbRequests,
                [retryCount |-> count,
                 waited |-> IF count = 0 THEN 0 ELSE now - failedAt])
         /\ sPc' = "awaitResponse"
         /\ steps' = IF count = 0 THEN Append(steps, "Fetching") ELSE steps
         /\ UNCHANGED <<usingDefaultStyles, scrapeError, pendingLog>>

ScrapeStart ==
    /\ sPc = "idle"
    /\ UNCHANGED <<genVars, cssVars, storeVars, fnVars, versionVars>>
    /\ startTime' = now
    /\ EnterRequest(0)
    /\ UNCHANGED <<now, sbApiKey, urlValid, retryCount, wakeAt, failedAt, sbFailures,
                   html, extracted, assets, processedAssets, logInserts,
                   scraping_logs, scrapeResult>>

\* the proxy answers the page request (lines 165-183 and 218-231)
FetchResponse ==
    /\ sPc = "awaitResponse"
    /\ UNCHANGED <<genVars, cssVars, storeVars, fnVars, versionVars>>
    /\ UNCHANGED <<now, sbApiKey, urlValid, retryCount, sbRequests, startTime,
                   extracted, assets, processedAssets, logInserts,
                   scraping_logs, scrapeResult>>
    /\ \E o \in FetchOutcomes :
         IF o.type = "ok"
         THEN /\ html' = [links |-> o.links, styleTags |-> <<>>]
              /\ sPc' = "inline"
              /\ UNCHANGED <<sbFailures, failedAt, wakeAt, usingDefaultStyles,
                             scrapeError, pendingLog, steps>>
         ELSE /\ sbFailures' = Append(sbFailures,
                    [status |-> o.status, body |-> o.body,
                     message |-> FetchErrorMessage(o)])
              /\ failedAt' = now
              /\ html' = html
              /\ IF ShouldRetry(FetchErrorMessage(o), retryCount)
                 THEN /\ sPc' = "backoff"
                      /\ wakeAt' = now + BackoffDelay(retryCount)
                      /\ UNCHANGED <<usingDefaultStyles, scrapeError,
                                     pendingLog, steps>>
                 ELSE /\ Raise("awaitResponse", FetchErrorMessage(o))
                      /\ wakeAt' = wakeAt

\* the backoff timer fires and the request is made again (lines 227-228)
BackoffDone ==
    /\ sPc = "backoff"
    /\ UNCHANGED <<genVars, cssVars, storeVars, fnVars, versionVars>>
    /\ now >= wakeAt
    /\ UNCHANGED <<now, sbApiKey, urlValid, wakeAt, failedAt, sbFailures, startTime,
                   html, extracted, assets, processedAssets, logInserts,
                   scraping_logs, scrapeResult>>
    /\ retryCount' = retryCount + 1
    /\ EnterRequest(retryCount + 1)

\* the stylesheet fetches settle and their text is inlined (lines 185-217);
\* a stylesheet that could not be fetched yields the empty text
InlineStylesheets ==
    /\ sPc = "inline"
    /\ UNCHANGED <<genVars, cssVars, storeVars, fnVars, versionVars>>
    /\ \E fetched \in [1..Len(html.links) -> BOOLEAN] :
         LET stylesheets == [i \in 1..Len(html.links) |->
                                IF fetched[i] THEN html.links[i] ELSE ""]
             styleContent == SelectSeq(stylesheets, LAMBDA css : css # "")
         IN  html' = IF styleContent # <<>>
                     THEN [links |-> <<>>,
                           styleTags |-> Append(html.styleTags, styleContent)]
                     ELSE html
    /\ sPc' = "extract"
    /\ UNCHANGED <<now, sbApiKey, urlValid, retryCount, wakeAt, failedAt, sbRequests,
                   sbFailures, startTime, usingDefaultStyles, scrapeError,
                   extracted, assets, processedAssets, pendingLog, logInserts,
                   scraping_logs, steps, scrapeResult>>

\* lines 501-531: parse the page and run the extractors; a selector built
\* from the brand hint can be rejected by querySelector
Extract ==
    /\ sPc = "extract"
    /\ UNCHANGED <<genVars, cssVars, storeVars, fnVars, versionVars>>
    /\ UNCHANGED <<now, sbApiKey, urlValid, retryCount, wakeAt, failedAt, sbRequests,
                   sbFailures, startTime, html, assets, processedAssets,
                   logInserts, scraping_logs, scrapeResult>>
    /\ \/ /\ Raise("extract", "SyntaxError: not a valid selector")
          /\ UNCHANGED extracted
       \/ \E ex \in ExtractionOutcomes :
            /\ extracted' =
                 [colors |-> ex.colors,
                  fonts  |-> ex.fonts,
                  logo   |-> ScrapedLogo(PageUrl, ex),
                  scraped |-> ScrapedImages(PageUrl, ex),
                  images |-> FinalImages(ScrapedImages(PageUrl, ex)),
                  metaDescription |-> ex.metaDescription]
            /\ sPc' = "store"
            /\ steps' = steps \o <<"Parsing", "Extracting", "Storing">>
            /\ UNCHANGED <<usingDefaultStyles, scrapeError, pendingLog>>

StoreFailures ==
    {NoFailure} \cup {[kind |-> k, at |-> i] : k \in {"error", "throw"}, i \in 0..MaxFailAt}

\* lines 534-557: storeProjectAssets settles, then the success log is built
\* and its insert issued
Store ==
    /\ sPc = "store"
    /\ UNCHANGED <<genVars, cssVars, storeVars, fnVars, versionVars>>
    /\ UNCHANGED <<now, sbApiKey, urlValid, retryCount, wakeAt, failedAt, sbRequests,
                   sbFailures, startTime, html, extracted, logInserts,
                   scraping_logs, scrapeResult>>
    /\ \E bucketExists \in BOOLEAN, failure \in StoreFailures :
         LET r == storeProjectAssets(ProjectId,
                     [images |-> extracted.images, logo |-> extracted.logo],
                     bucketExists, failure)
         IN  /\ assets' = assets \o r.rows
             /\ IF r.throws
                THEN /\ Raise("store", "Failed to insert asset")
                     /\ UNCHANGED processedAssets
                ELSE /\ processedAssets' = [images |-> r.images, logo |-> r.logo]
                     /\ pendingLog' = SuccessLog(extracted, processedAssets',
                                        now - startTime, usingDefaultStyles)
                     /\ sPc' = "logSuccess"
                     /\ steps' = Append(steps, "Logging")
                     /\ UNCHANGED <<usingDefaultStyles, scrapeError>>

\* the scraping_logs insert settles and scrapeWebsite returns
\* (lines 543-569, 581-598, 601-618)
LogDone ==
    /\ sPc \in {"logSuccess", "logFailure"}
    /\ UNCHANGED <<genVars, cssVars, storeVars, fnVars, versionVars>>
    /\ UNCHANGED <<now, sbApiKey, urlValid, retryCount, wakeAt, failedAt, sbRequests,
                   sbFailures, startTime, html, extracted, assets,
                   processedAssets>>
    /\ \E outcome \in {"ok", "error", "throw"} :
         LET r == logScrapingResult(scraping_logs, ProjectId, pendingLog, outcome)
         IN  /\ logInserts' = Append(logInserts, outcome)
             /\ scraping_logs' = r.rows
             /\ IF r.raised
                THEN /\ Raise(sPc, "Failed to store scraping log")
                     /\ UNCHANGED scrapeResult
                ELSE /\ sPc' = "done"
                     /\ scrapeResult' = IF sPc = "logSuccess"
                                        THEN MergedResult(extracted)
                                        ELSE DEFAULT_STYLE
                     /\ steps' = Append(steps, "Done")
                     /\ UNCHANGED <<usingDefaultStyles, scrapeError, pendingLog>>

\* time passes while the backoff timer is pending; it may fire late
ScrapeTick ==
    /\ sPc = "backoff"
    /\ now < StartOfTime + MaxTicks * BACKOFF_MS
    /\ now' = now + BACKOFF_MS
    /\ UNCHANGED <<scrapeVars, genVars, cssVars, storeVars, fnVars, versionVars>>

ScrapeInit ==
    /\ sbApiKey \in BOOLEAN
    /\ urlValid \in BOOLEAN
    /\ sPc = "idle"
    /\ retryCount = 0
    /\ wakeAt = 0
    /\ failedAt = 0
    /\ sbRequests = <<>>
    /\ sbFailures = <<>>
    /\ startTime = 0
    /\ usingDefaultStyles = FALSE
    /\ scrapeError = ""
    /\ html = NoHtml
    /\ extracted = NoExtraction
    /\ assets = <<>>
    /\ processedAssets = NoAssets
    /\ pendingLog = NoLog
    /\ logInserts = <<>>
    /\ scraping_logs = <<>>
    /\ steps = <<>>
    /\ scrapeResult = NoResult

-----------------------------------------------------------------------------
(* lib/ai.ts: generateLandingPage and updateLandingPage *)

NoCall == [pc |-> "idle", kind |-> "generate", style |-> UndefinedStyle,
           retries |-> 0, lastError |-> <<"null">>, wakeAt |-> 0,
           attempts |-> 0, requests |-> 0, errors |-> <<>>, waits |-> <<>>,
           result |-> [html |-> <<>>, error |-> <<"undefined">>]]

Styles == {UndefinedStyle, DEFAULT_STYLE}

ProviderErrors == { <<"rate_limit", "_exceeded">>,
                    <<"Request ", "timeout">>,
                    <<"invalid_request_error">> }

\* completion.choices[0].message.content
GeneratedTexts == { <<>>, <<"x">>, <<"b", "b", "b", "h", "n", "x", "n", "b", "b", "b">> }

InFlight == {"rateWait", "awaitCompletion", "delay"}

\* return of the failure result after the loop (lines 334-338, 591-594)
Finish(call) ==
    [call EXCEPT !.pc = "done",
                 !.wakeAt = 0,
                 !.result = FailureResult(call.kind, call.style, call.lastError)]

RetryBackoff_Constant(retries) == RETRY_DELAY

\* the argument of delay in the catch block (lines 329, 586)
RetryBackoff(retries) == RETRY_DELAY * retries

\* the catch block (lines 313-331, 580-588) for an error with this message
AfterError(call, message) ==
    LET caught == [call EXCEPT !.lastError = message,
                               !.errors = Append(@, message)]
    IN  IF ~IsRetryable(call.kind, message) THEN Finish(caught)
        ELSE IF CanRetry(caught.retries + 1)
        THEN [caught EXCEPT !.retries = @ + 1,
                            !.pc = "delay",
                            !.wakeAt = now + RetryBackoff(caught.retries + 1),
                            !.waits = Append(@, RetryBackoff(caught.retries + 1))]
        ELSE Finish([caught EXCEPT !.retries = @ + 1])

\* end of waitForRateLimit (line 194), then getOpenAIClient and the provider
\* request (lines 220-298)
StampAndIssue(c, call) ==
    /\ lastRequestTime' = now
    /\ IF ~openaiClient /\ ~openaiKey
       THEN /\ gen' = [gen EXCEPT ![c] = AfterError(call, KeyMissingMessage)]
            /\ UNCHANGED <<openaiClient, providerLog>>
       ELSE /\ openaiClient' = TRUE
            /\ providerLog' = Append(providerLog, now)
            /\ gen' = [gen EXCEPT ![c] = [call EXCEPT !.pc = "awaitCompletion",
                                                     !.requests = @ + 1]]

\* the top of the while loop (lines 217-219): waitForRateLimit up to its await
LoopTop(c, call) ==
    IF ~CanRetry(call.retries)
    THEN /\ gen' = [gen EXCEPT ![c] = Finish(call)]
         /\ UNCHANGED <<lastRequestTime, openaiClient, providerLog>>
    ELSE IF RateLimitDelay(now - lastRequestTime) > 0
    THEN /\ gen' = [gen EXCEPT ![c] =
                      [call EXCEPT !.pc = "rateWait",
                                   !.attempts = @ + 1,
                                   !.wakeAt = now + RateLimitDelay(now - lastRequestTime)]]
         /\ UNCHANGED <<lastRequestTime, openaiClient, providerLog>>
    ELSE StampAndIssue(c, [call EXCEPT !.attempts = @ + 1])

\* callers are numbered in the order of their first call
GenStart(c) ==
    /\ gen[c].pc \in {"idle", "done"}
    /\ \A d \in Callers : d < c => gen[d].pc # "idle"
    /\ callsStarted < MaxCalls
    /\ callsStarted' = callsStarted + 1
    /\ overlap' = (overlap \/ \E d \in Callers \ {c} : gen[d].pc \in InFlight)
    /\ \E kind \in {"generate", "update"}, style \in Styles :
         LoopTop(c, [NoCall EXCEPT !.kind = kind, !.style = style])
    /\ UNCHANGED <<now, openaiKey, scrapeVars, cssVars, storeVars, fnVars, versionVars>>

\* the timer of waitForRateLimit fires
RateWaitDone(c) ==
    /\ gen[c].pc = "rateWait"
    /\ now >= gen[c].wakeAt
    /\ StampAndIssue(c, gen[c])
    /\ UNCHANGED <<now, openaiKey, callsStarted, overlap, scrapeVars, cssVars, storeVars, fnVars, versionVars>>

\* the provider answers, or the request fails (lines 287-311, 558-578)
Completion(c) ==
    /\ gen[c].pc = "awaitCompletion"
    /\ \/ \E generatedCode \in GeneratedTexts :
            gen' = [gen EXCEPT ![c] =
                      IF generatedCode = <<>>
                      THEN AfterError(gen[c], EmptyContentMessage(gen[c].kind))
                      ELSE [gen[c] EXCEPT !.pc = "done",
                                          !.wakeAt = 0,
                                          !.result = SuccessResult(generatedCode)]]
       \/ \E message \in ProviderErrors :
            gen' = [gen EXCEPT ![c] = AfterError(gen[c], message)]
    /\ UNCHANGED <<now, openaiKey, openaiClient, lastRequestTime, callsStarted,
                   providerLog, overlap, scrapeVars, cssVars, storeVars, fnVars, versionVars>>

\* the retry delay ends and the loop continues (lines 328-329, 585-586)
DelayDone(c) ==
    /\ gen[c].pc = "delay"
    /\ now >= gen[c].wakeAt
    /\ LoopTop(c, gen[c])
    /\ UNCHANGED <<now, openaiKey, callsStarted, overlap, scrapeVars, cssVars, storeVars, fnVars, versionVars>>

\* time passes while some call is suspended
GenTick ==
    /\ \E c \in Callers : gen[c].pc \in InFlight
    /\ now < StartOfTime + MaxGenTicks * RETRY_DELAY
    /\ now' = now + RETRY_DELAY
    /\ UNCHANGED <<scrapeVars, genVars, cssVars, storeVars, fnVars, versionVars>>

GenInit ==
    /\ openaiKey \in BOOLEAN
    /\ openaiClient = FALSE
    /\ lastRequestTime = 0
    /\ gen = [c \in Callers |-> NoCall]
    /\ callsStarted = 0
    /\ providerLog = <<>>
    /\ overlap = FALSE

\* no generation call is made
GenOff ==
    /\ openaiKey = FALSE
    /\ openaiClient = FALSE
    /\ lastRequestTime = 0
    /\ gen = [c \in Callers |-> [NoCall EXCEPT !.pc = "off"]]
    /\ callsStarted = 0
    /\ providerLog = <<>>
    /\ overlap = FALSE

\* no page is scraped
ScrapeOff ==
    /\ sbApiKey = FALSE
    /\ urlValid = FALSE
    /\ sPc = "off"
    /\ retryCount = 0
    /\ wakeAt = 0
    /\ failedAt = 0
    /\ sbRequests = <<>>
    /\ sbFailures = <<>>
    /\ startTime = 0
    /\ usingDefaultStyles = FALSE
    /\ scrapeError = ""
    /\ html = NoHtml
    /\ extracted = NoExtraction
    /\ assets = <<>>
    /\ processedAssets = NoAssets
    /\ pendingLog = NoLog
    /\ logInserts = <<>>
    /\ scraping_logs = <<>>
    /\ steps = <<>>
    /\ scrapeResult = NoResult

-----------------------------------------------------------------------------
(* scraper.ts: stylesheet inlining of makeScrapingBeeRequest (lines 185-217)
   and fetchExternalStylesheet (lines 77-134) *)

MaxImportDepth == 7

SheetA == "https://site.com/a.css"
SheetB == "https://site.com/b.css"
SheetC == "https://cdn.site.com/c.css"
Sheets == {SheetA, SheetB, SheetC}

\* a link element without href
NoHref == ""

NoImports == [s \in Sheets |-> <<>>]

\* pages and stylesheets: the hrefs of the page's stylesheet links in
\* document order, and for every stylesheet the URLs of its import rules
Sites ==
    { [links |-> <<>>, imports |-> NoImports],
      [links |-> <<SheetA>>, imports |-> NoImports],
      [links |-> <<SheetA, SheetB>>, imports |-> NoImports],
      [links |-> <<SheetA, SheetB, SheetC>>, imports |-> NoImports],
      [links |-> <<SheetA, NoHref, SheetB>>,
       imports |-> [NoImports EXCEPT ![SheetA] = <<SheetC>>]],
      [links |-> <<SheetB>>,
       imports |-> [NoImports EXCEPT ![SheetB] = <<SheetA, SheetC>>]],
      [links |-> <<SheetA>>,
       imports |-> [NoImports EXCEPT ![SheetA] = <<SheetA>>]],
      [links |-> <<SheetA>>,
       imports |-> [NoImports EXCEPT ![SheetA] = <<SheetB>>,
                                     ![SheetB] = <<SheetA>>]] }

\* a text is a sequence of pieces; the text of a stylesheet is one piece
CssText(sheet) == <<sheet>>
NewLine == "n"

\* texts.join('\n')
RECURSIVE JoinLines(_)
JoinLines(texts) ==
    IF texts = <<>> THEN <<>>
    ELSE IF Len(texts) = 1 THEN texts[1]
    ELSE texts[1] \o <<NewLine>> \o JoinLines(Tail(texts))

\* mutant: fetchExternalStylesheet without its try/catch
CatchesStylesheetError_Not == FALSE

\* fetchExternalStylesheet catches every error and returns '' (lines 130-133)
CatchesStylesheetError == TRUE

\* the imports a call of fetchExternalStylesheet fetches (lines 104-123)
NumImports(p) ==
    IF cssFetches[p].outcome = "ok"
    THEN Len(cssSite.imports[cssFetches[p].sheet]) ELSE 0

\* the promise of the call has settled: its response and those of all the
\* imports below it have arrived
Settled(p) ==
    \A q \in DOMAIN cssFetches :
        IsPrefix(p, q) => cssFetches[q].outcome # "pending"

\* what the call resolves to (lines 94-133)
RECURSIVE StylesheetText(_)
StylesheetText(p) ==
    IF cssFetches[p].outcome # "ok" THEN <<>>
    ELSE IF NumImports(p) = 0 THEN CssText(cssFetches[p].sheet)
    ELSE JoinLines(<<CssText(cssFetches[p].sheet)>>
                   \o [j \in 1..NumImports(p) |-> StylesheetText(Append(p, j))])

\* the element of stylesheets for the i-th link (lines 190-195)
LinkText(i) ==
    IF cssSite.links[i] = NoHref THEN <<>> ELSE StylesheetText(<<i>>)

\* the position in cssResponses at which the i-th link's promise settled
LinkDoneAt(i) ==
    LET ks == {k \in 1..Len(cssResponses) : cssResponses[k][1] = i}
    IN  IF ks = {} THEN 0 ELSE CHOOSE k \in ks : \A l \in ks : l <= k

\* mutant: the texts are merged in the order the fetches completed
MergeOrder_Completion(n) ==
    CHOOSE o \in [1..n -> 1..n] :
        \A i, j \in 1..n :
            i < j => \/ LinkDoneAt(o[i]) < LinkDoneAt(o[j])
                     \/ LinkDoneAt(o[i]) = LinkDoneAt(o[j]) /\ o[i] < o[j]

\* Promise.all resolves to the results in the order of the promises (line 189)
MergeOrder(n) == [i \in 1..n |-> i]

\* stylesheets.filter(Boolean).join('\n') (line 204)
StyleContent ==
    LET n == Len(cssSite.links)
        stylesheets == [k \in 1..n |-> LinkText(MergeOrder(n)[k])]
    IN  JoinLines(SelectSeq(stylesheets, LAMBDA css : css # <<>>))

\* lines 186-196: every link's fetch is started before any is awaited
CssStart ==
    /\ cssPc = "idle"
    /\ cssFetches' =
         [p \in {<<i>> : i \in {k \in 1..Len(cssSite.links) :
                                   cssSite.links[k] # NoHref}} |->
            [sheet |-> cssSite.links[p[1]], outcome |-> "pending"]]
    /\ cssPc' = "fetching"
    /\ UNCHANGED <<cssSite, cssResponses, cssHtml>>
    /\ UNCHANGED <<now, scrapeVars, genVars, storeVars, fnVars, versionVars>>

\* the response to the request of call p arrives (lines 89-133): the request
\* failed, or returned an empty text, or returned the stylesheet, whose
\* imports are then all requested
CssResponse(p) ==
    /\ cssPc = "fetching"
    /\ cssFetches[p].outcome = "pending"
    /\ \E o \in {"failed", "empty", "ok"} :
         LET imps == cssSite.imports[cssFetches[p].sheet]
             spawn == o = "ok" /\ imps # <<>>
         IN  /\ spawn => Len(p) < MaxImportDepth
             /\ cssFetches' =
                  [cssFetches EXCEPT ![p].outcome = o]
                  @@ [q \in {Append(p, j) : j \in 1..(IF spawn THEN Len(imps) ELSE 0)} |->
                        [sheet |-> imps[q[Len(q)]], outcome |-> "pending"]]
             /\ cssPc' = IF o = "failed" /\ ~CatchesStylesheetError
                         THEN "threw" ELSE cssPc
    /\ cssResponses' = Append(cssResponses, p)
    /\ UNCHANGED <<cssSite, cssHtml>>
    /\ UNCHANGED <<now, scrapeVars, genVars, storeVars, fnVars, versionVars>>

\* lines 199-217: all fetches have settled; the texts are put into one style
\* tag and the links removed, when there is any text
CssInline ==
    /\ cssPc = "fetching"
    /\ \A i \in 1..Len(cssSite.links) :
         cssSite.links[i] = NoHref \/ Settled(<<i>>)
    /\ cssHtml' = IF StyleContent # <<>>
                  THEN [links |-> <<>>,
                        styleTags |-> Append(cssHtml.styleTags, StyleContent)]
                  ELSE cssHtml
    /\ cssPc' = "done"
    /\ UNCHANGED <<cssSite, cssFetches, cssResponses>>
    /\ UNCHANGED <<now, scrapeVars, genVars, storeVars, fnVars, versionVars>>

CssInit ==
    /\ cssPc = "idle"
    /\ cssSite \in Sites
    /\ cssFetches = <<>>
    /\ cssResponses = <<>>
    /\ cssHtml = [links |-> cssSite.links, styleTags |-> <<>>]

\* no stylesheet is inlined
CssOff ==
    /\ cssPc = "off"
    /\ cssSite = [links |-> <<>>, imports |-> NoImports]
    /\ cssFetches = <<>>
    /\ cssResponses = <<>>
    /\ cssHtml = NoHtml

-----------------------------------------------------------------------------
(* lib/storage.ts: storeProjectAssets (lines 105-156), step by step *)

\* the assets argument of a call: its logo and its images
StoreInputs ==
    [ logo   : {Undefined, LogoSvg, LogoNoExt, DataUrl},
      images : { <<>>, <<Img1>>, <<DataUrl, ImgNoExt>>, <<Img1, ImgNoExt, Img2>>,
                 <<ImgUnsplash, Img1>>, <<Img1, Img1>> } ]

\* mutant: an asset record is created for a rejected URL too
NeedsRecord_Always(storedUrl) == TRUE

\* if (storedLogo), if (storedUrl) (lines 120 and 135)
NeedsRecord(storedUrl) == Truthy(storedUrl)

\* supabase.from('assets').insert(...) of task number task, 0 for the logo
AssetInsert(task, type, url) ==
    [task |-> task, project_id |-> ProjectId, type |-> type, url |-> url,
     outcome |-> "pending"]

AssetRow(insert) ==
    [project_id |-> insert.project_id, type |-> insert.type, url |-> insert.url]

PendingInserts(inserts) ==
    {k \in 1..Len(inserts) : inserts[k].outcome = "pending"}

\* mutant: no fallback images
StoredAssets_NoFallback(stored, logo) ==
    [images |-> FilterTruthy(stored), logo |-> logo]

\* lines 147-155: the stored images in input order, the fallback images when
\* there is none
StoredAssets(stored, logo) ==
    [images |-> IF Len(FilterTruthy(stored)) = 0
                THEN STORAGE_FALLBACK_IMAGES ELSE FilterTruthy(stored),
     logo   |-> logo]

\* lines 133-155: every image is downloaded and the insert of every stored
\* image issued; without any insert the call returns at once
StartImages(inserts, logo) ==
    \E bucketExists \in BOOLEAN :
        LET stored == [i \in 1..Len(saInput.images) |->
                          downloadAndStoreImage(saInput.images[i], bucketExists)]
            issued == SelectSeq([i \in 1..Len(stored) |->
                                    AssetInsert(i, "image", stored[i])],
                                LAMBDA ins : NeedsRecord(ins.url))
        IN  /\ saStored' = stored
            /\ saInserts' = inserts \o issued
            /\ IF issued = <<>>
               THEN /\ saPc' = "returned"
                    /\ saResult' = StoredAssets(stored, logo)
               ELSE /\ saPc' = "images"
                    /\ saResult' = saResult

\* lines 112-128: the logo is downloaded and its insert issued
AssetsStart ==
    /\ saPc = "idle"
    /\ saRows' = saRows
    /\ IF Truthy(saInput.logo)
       THEN \E bucketExists \in BOOLEAN :
              LET storedLogo == downloadAndStoreImage(saInput.logo, bucketExists)
              IN  IF NeedsRecord(storedLogo)
                  THEN /\ saLogo' = storedLogo
                       /\ saInserts' = <<AssetInsert(0, "logo", storedLogo)>>
                       /\ saPc' = "logoInsert"
                       /\ UNCHANGED <<saStored, saResult>>
                  ELSE /\ saLogo' = saLogo
                       /\ StartImages(<<>>, saLogo)
       ELSE /\ saLogo' = saLogo
            /\ StartImages(<<>>, saLogo)
    /\ UNCHANGED saInput
    /\ UNCHANGED <<now, scrapeVars, genVars, cssVars, fnVars, versionVars>>

\* the logo's insert settles (lines 124-128): a rejection ends the call,
\* otherwise the images are processed
AssetsLogoInserted ==
    /\ saPc = "logoInsert"
    /\ \E outcome \in {"ok", "error", "throw"} :
         /\ saRows' = IF outcome = "ok"
                      THEN Append(saRows, AssetRow(saInserts[1])) ELSE saRows
         /\ IF outcome = "throw"
            THEN /\ saInserts' = [saInserts EXCEPT ![1].outcome = outcome]
                 /\ saPc' = "threw"
                 /\ UNCHANGED <<saStored, saResult>>
            ELSE StartImages([saInserts EXCEPT ![1].outcome = outcome], saLogo)
    /\ UNCHANGED <<saInput, saLogo>>
    /\ UNCHANGED <<now, scrapeVars, genVars, cssVars, fnVars, versionVars>>

\* the insert of one image settles (lines 137-147): the first rejection
\* rejects Promise.all and the call while the other inserts stay in flight;
\* when the last one has settled the call returns
AssetsImageInserted(k) ==
    /\ saPc \in {"images", "threw"}
    /\ saInserts[k].type = "image"
    /\ saInserts[k].outcome = "pending"
    /\ \E outcome \in {"ok", "error", "throw"} :
         /\ saInserts' = [saInserts EXCEPT ![k].outcome = outcome]
         /\ saRows' = IF outcome = "ok"
                      THEN Append(saRows, AssetRow(saInserts[k])) ELSE saRows
         /\ IF saPc = "threw" THEN UNCHANGED <<saPc, saResult>>
            ELSE IF outcome = "throw"
            THEN /\ saPc' = "threw"
                 /\ UNCHANGED saResult
            ELSE IF PendingInserts(saInserts) = {k}
            THEN /\ saPc' = "returned"
                 /\ saResult' = StoredAssets(saStored, saLogo)
            ELSE UNCHANGED <<saPc, saResult>>
    /\ UNCHANGED <<saInput, saLogo, saStored>>
    /\ UNCHANGED <<now, scrapeVars, genVars, cssVars, fnVars, versionVars>>

StoreInit ==
    /\ saPc = "idle"
    /\ saInput \in StoreInputs
    /\ saLogo = Undefined
    /\ saStored = <<>>
    /\ saInserts = <<>>
    /\ saRows = <<>>
    /\ saResult = NoAssets

\* storeProjectAssets is not called
StoreOff ==
    /\ saPc = "off"
    /\ saInput = NoAssets
    /\ saLogo = Undefined
    /\ saStored = <<>>
    /\ saInserts = <<>>
    /\ saRows = <<>>
    /\ saResult = NoAssets

-----------------------------------------------------------------------------
(* cleanGeneratedCode, resolveUrl and findLogo called on their own: one call,
   its arguments drawn from the sets below. *)

MaxCodeLen == 4
MaxDocImages == 2

\* the characters of a generated text: backtick, newline, blank, the text
\* html, any other character
CodeChars == {"b", "n", "s", "h", "x"}

CodeTexts(chars, maxLen) == UNION { [1..k -> chars] : k \in 0..maxLen }

\* content wrapped in a code fence, as the provider returns it
Fence(content, withHtml) ==
    Backticks3 \o (IF withHtml THEN <<"h">> ELSE <<>>) \o <<"n">> \o content
               \o <<"n">> \o Backticks3

CodeInputs ==
    CodeTexts(CodeChars, MaxCodeLen)
        \cup { Fence(c, withHtml) : c \in CodeTexts(CodeChars \ {"b"}, MaxCodeLen),
                                    withHtml \in BOOLEAN }

\* the addresses resolveUrl is called with: empty, data:, absolute, relative,
\* protocol-relative, unparsable, and addresses on the development host
ContainerAsset == <<"https:", "//", WebContainerHost, "/assets/c.webp">>
ContainerLogo == <<"http:", "//", WebContainerHost, "/logo.svg">>
ProtocolRelative == <<"//", "cdn.site.com", "/b.png">>
BadHostHttp == <<"https:", "//", "[">>
BadHostFtp == <<"ftp:", "//", "[">>

UrlInputs == { <<>>, DataUrl, Img1, Img2, ImgFtp, ImgRel, LogoRel, ProtocolRelative,
               BadHostHttp, BadHostFtp, ContainerAsset, ContainerLogo }

BaseUrls == {DocBaseURI, PageUrl}

\* brand.toLowerCase() (line 274)
Lower(word) == IF word = "Acme" THEN "acme" ELSE word

NoBrand == ""
Brands == {NoBrand, "Acme", "zeta"}

\* an img element: where it stands, its attributes (0 for a missing width or
\* height); src and alt are sequences of text pieces
Image(place, inLogo, src, dataSrc, alt, size) ==
    [place |-> place, inLogo |-> inLogo, classLogo |-> FALSE, src |-> src,
     dataSrc |-> dataSrc, alt |-> alt, width |-> size, height |-> size]

HeaderBrand == Image("header", FALSE, <<"/", "acme", ".png">>, Undefined, <<>>, 0)
HeaderBrandLogo ==
    Image("header", FALSE, <<"/", "acme", "-", "logo", ".png">>, Undefined, <<>>, 0)
HeaderBrandAlt ==
    Image("header", FALSE, <<"/", "acme", ".svg">>, Undefined, <<"acme", " ", "logo">>, 0)
ClassLogo == Image("body", TRUE, <<"/", "mark", ".svg">>, Undefined, <<>>, 0)
LazyClassLogo == Image("body", TRUE, Undefined, <<"/", "lazy", ".svg">>, <<>>, 0)
NavSquare == Image("nav", FALSE, <<"/", "icon", ".png">>, Undefined, <<>>, 64)
BodyBrandIcon == Image("body", FALSE, <<"/", "img", "/", "acme", ".png">>, Undefined, <<>>, 64)

Images == {HeaderBrand, HeaderBrandLogo, HeaderBrandAlt, ClassLogo, LazyClassLogo,
           NavSquare, BodyBrandIcon}

\* the img elements of a document, in document order
Documents ==
    { d \in CodeTexts(Images, MaxDocImages) :
        \A i, j \in 1..Len(d) : d[i] = d[j] => i = j }

\* attribute value contains the text: [attr*="..."]
ContainsSeq(value, text) ==
    \E i \in 0..(Len(value) - Len(text)) : SubSeq(value, i + 1, i + Len(text)) = text

Selector(place, attr, text, width) ==
    [place |-> place, attr |-> attr, text |-> text, width |-> width]

\* lines 275-291
brandSelectors(brandLower) ==
    << Selector("any", "src", <<brandLower, "-", "logo">>, 0),
       Selector("any", "src", <<"logo", "-", brandLower>>, 0),
       Selector("any", "src", <<brandLower, "_", "logo">>, 0),
       Selector("any", "src", <<"logo", "_", brandLower>>, 0),
       Selector("any", "alt", <<brandLower, " ", "logo">>, 0),
       Selector("header", "src", <<brandLower>>, 0),
       Selector("nav", "src", <<brandLower>>, 0),
       Selector("any", "src", <<brandLower>>, 32),
       Selector("any", "src", <<brandLower>>, 64),
       Selector("any", "src", <<brandLower>>, 100),
       Selector("any", "src", <<brandLower>>, 128),
       Selector("any", "src", <<brandLower>>, 200) >>

\* lines 306-315
genericLogoSelectors ==
    << Selector("header", "src", <<"logo">>, 0),
       Selector("header", "alt", <<"logo">>, 0),
       Selector("nav", "src", <<"logo">>, 0),
       Selector("nav", "alt", <<"logo">>, 0),
       Selector("inLogo", "none", <<>>, 0),
       Selector("classLogo", "none", <<>>, 0),
       Selector("any", "src", <<"logo">>, 0),
       Selector("any", "alt", <<"logo">>, 0) >>

\* the element matches the selector
Matches(img, sel) ==
    /\ \/ sel.place = "any"
       \/ sel.place \in {"header", "nav"} /\ img.place = sel.place
       \/ sel.place = "inLogo" /\ img.inLogo
       \/ sel.place = "classLogo" /\ img.classLogo
    /\ \/ sel.attr = "none"
       \/ sel.attr = "src" /\ Truthy(img.src) /\ ContainsSeq(img.src, sel.text)
       \/ sel.attr = "alt" /\ ContainsSeq(img.alt, sel.text)
    /\ sel.width = 0 \/ img.width = sel.width

\* doc.querySelector(selector): the first match in document order, 0 for null
QuerySelector(doc, sel) ==
    LET hits == {i \in 1..Len(doc) : Matches(doc[i], sel)}
    IN  IF hits = {} THEN 0 ELSE CHOOSE i \in hits : \A j \in hits : i <= j

\* img.getAttribute('src') || img.getAttribute('data-src')
SrcOf(img) == IF Truthy(img.src) THEN img.src ELSE img.dataSrc

\* the loops of lines 293-302 and 317-326: the src of the first selector whose
\* first match has one
RECURSIVE FirstSrc(_, _)
FirstSrc(doc, selectors) ==
    IF selectors = <<>> THEN Undefined
    ELSE LET i == QuerySelector(doc, Head(selectors))
         IN  IF i # 0 /\ Truthy(SrcOf(doc[i])) THEN SrcOf(doc[i])
             ELSE FirstSrc(doc, Tail(selectors))

\* lines 329-342: the first square image of a header or nav
SquareSrc(doc) ==
    LET hits == {i \in 1..Len(doc) :
                    /\ doc[i].place \in {"header", "nav"}
                    /\ doc[i].width = doc[i].height
                    /\ doc[i].width >= 32 /\ doc[i].width <= 200}
        first == CHOOSE i \in hits : \A j \in hits : i <= j
    IN  IF hits # {} /\ Truthy(doc[first].src) THEN doc[first].src ELSE Undefined

\* mutant: the generic selectors are tried before the brand selectors
LogoSrc_GenericFirst(doc, brand) ==
    LET byBrand == IF brand # NoBrand
                   THEN FirstSrc(doc, brandSelectors(Lower(brand))) ELSE Undefined
        generic == FirstSrc(doc, genericLogoSelectors)
    IN  IF Truthy(generic) THEN generic
        ELSE IF Truthy(byBrand) THEN byBrand
        ELSE SquareSrc(doc)

\* the src findLogo hands to resolveUrl (lines 271-345), Undefined when no
\* strategy finds one
LogoSrc(doc, brand) ==
    LET byBrand == IF brand # NoBrand
                   THEN FirstSrc(doc, brandSelectors(Lower(brand))) ELSE Undefined
        generic == FirstSrc(doc, genericLogoSelectors)
    IN  IF Truthy(byBrand) THEN byBrand
        ELSE IF Truthy(generic) THEN generic
        ELSE SquareSrc(doc)

\* ---- findImages on a document ----

MaxDocElems == 3

\* the paths the extension test of lines 373 and 394 accepts
RasterPaths == {"/hero.jpg", "/b.png", "/assets/c.webp"}

\* /\.(jpg|jpeg|png|webp)(\?.*)?$/i.test(src)
HasRasterExt(src) ==
    /\ src # <<>>
    /\ \/ src[Len(src)] \in RasterPaths
       \/ Len(src) >= 2 /\ src[Len(src)] \in QueryPieces /\ src[Len(src) - 1] \in RasterPaths

\* an element: its tag, whether an ancestor has class hero ("hero") or a
\* class containing hero ("heroLike"), whether it stands in a header, the
\* content container around it, whether that is the first section of main,
\* its src, width and height, and the url of its inline background image
Element(tag, hero, inHeader, container, firstSection, src, width, height, bg) ==
    [tag |-> tag, hero |-> hero, inHeader |-> inHeader, container |-> container,
     firstSection |-> firstSection, src |-> src, width |-> width,
     height |-> height, bg |-> bg]

LocalHero == <<"http:", "//", "localhost:5173", "/hero.jpg">>

HeroBanner == Element("img", "heroLike", FALSE, "none", FALSE, ImgRel, 1200, 600, Undefined)
HeaderPhoto == Element("img", "none", TRUE, "none", FALSE, Img2, 0, 0, Undefined)
LargePhoto == Element("img", "none", FALSE, "none", FALSE, Img3, 800, 300, Undefined)
ArticlePhoto == Element("img", "none", FALSE, "article", FALSE, Img1, 0, 0, Undefined)
SectionPhoto == Element("img", "none", FALSE, "section", TRUE, LocalHero, 0, 0, Undefined)
GalleryPhoto ==
    Element("img", "none", FALSE, "gallery", FALSE, <<"/assets/c.webp">>, 0, 0, Undefined)
BgDiv == Element("div", "none", FALSE, "none", FALSE, Undefined, 0, 0, ImgUnsplash)
BgLogoDiv == Element("div", "none", FALSE, "none", FALSE, Undefined, 0, 0, LogoSvg)

Elements == {HeroBanner, HeaderPhoto, LargePhoto, ArticlePhoto, SectionPhoto,
             GalleryPhoto, BgDiv, BgLogoDiv}

\* documents with more images than the cap of findImages
LongDocuments ==
    { <<BgDiv, GalleryPhoto, ArticlePhoto, LargePhoto, HeaderPhoto, HeroBanner>>,
      <<HeroBanner, HeaderPhoto, LargePhoto, ArticlePhoto, SectionPhoto, GalleryPhoto,
        BgDiv, BgLogoDiv>>,
      <<BgLogoDiv, BgDiv, SectionPhoto, GalleryPhoto, ArticlePhoto, LargePhoto,
        HeaderPhoto>> }

\* the elements of a document, in document order
ElementDocuments ==
    LongDocuments \cup
        { d \in CodeTexts(Elements, MaxDocElems) :
            \A i, j \in 1..Len(d) : d[i] = d[j] => i = j }

\* lines 351-356
heroSelectors == <<"hero", "heroLike", "header", "firstSection">>

MatchesHero(el, selector) ==
    /\ el.tag = "img"
    /\ \/ selector = "hero" /\ el.hero = "hero"
       \/ selector = "heroLike" /\ el.hero \in {"hero", "heroLike"}
       \/ selector = "header" /\ el.inHeader /\ ~(Truthy(el.src) /\ ContainsLogo(el.src))
       \/ selector = "firstSection" /\ el.firstSection

\* the elements of doc at the positions of hits, in document order
RECURSIVE Pick(_, _, _)
Pick(doc, i, hits) ==
    IF i > Len(doc) THEN <<>>
    ELSE (IF i \in hits THEN <<doc[i]>> ELSE <<>>) \o Pick(doc, i + 1, hits)

\* lines 358-363: the src of the first match of every hero selector
RECURSIVE HeroSrcs(_, _)
HeroSrcs(doc, selectors) ==
    IF selectors = <<>> THEN <<>>
    ELSE LET hits == Pick(doc, 1, {i \in 1..Len(doc) : MatchesHero(doc[i], Head(selectors))})
         IN  (IF hits # <<>> /\ Truthy(hits[1].src) THEN <<hits[1].src>> ELSE <<>>)
                \o HeroSrcs(doc, Tail(selectors))

\* lines 366-379: large images
LargeSrcs(doc) ==
    LET large == Pick(doc, 1, {i \in 1..Len(doc) :
                        /\ doc[i].tag = "img"
                        /\ doc[i].width >= 600 \/ doc[i].height >= 400
                        /\ Truthy(doc[i].src)
                        /\ ~ContainsLogo(doc[i].src)
                        /\ HasRasterExt(doc[i].src)})
    IN  [k \in 1..Len(large) |-> large[k].src]

\* lines 384-390
contentSelectors == <<"features", "products", "gallery", "article", "section">>

\* lines 392-399: the images of every content selector with an accepted extension
RECURSIVE ContentSrcs(_, _)
ContentSrcs(doc, selectors) ==
    IF selectors = <<>> THEN <<>>
    ELSE LET found == Pick(doc, 1, {i \in 1..Len(doc) :
                            /\ doc[i].tag = "img"
                            /\ doc[i].container = Head(selectors)
                            /\ Truthy(doc[i].src)
                            /\ HasRasterExt(doc[i].src)})
         IN  [k \in 1..Len(found) |-> found[k].src] \o ContentSrcs(doc, Tail(selectors))

\* lines 402-414: inline background images
BackgroundSrcs(doc) ==
    LET found == Pick(doc, 1, {i \in 1..Len(doc) : Truthy(doc[i].bg)})
    IN  [k \in 1..Len(found) |-> found[k].bg]

\* mutant: the background images are collected first
ImageSrcs_BackgroundFirst(doc) ==
    BackgroundSrcs(doc) \o HeroSrcs(doc, heroSelectors) \o LargeSrcs(doc)
        \o ContentSrcs(doc, contentSelectors)

\* the srcs findImages adds to its set, in the order it adds them (lines 358-414)
ImageSrcs(doc) ==
    HeroSrcs(doc, heroSelectors) \o LargeSrcs(doc)
        \o ContentSrcs(doc, contentSelectors) \o BackgroundSrcs(doc)

CallFindImages ==
    /\ fnCall.fn = "findImages"
    /\ ~fnDone
    /\ fnDone' = TRUE
    /\ fnResult' = findImages(ImageSrcs(fnCall.arg))
    /\ UNCHANGED <<now, fnCall, scrapeVars, genVars, cssVars, storeVars, versionVars>>

NoFnCall == [fn |-> "none", arg |-> <<>>]

CallCleanGeneratedCode ==
    /\ fnCall.fn = "cleanGeneratedCode"
    /\ ~fnDone
    /\ fnDone' = TRUE
    /\ fnResult' = cleanGeneratedCode(fnCall.arg)
    /\ UNCHANGED <<now, fnCall, scrapeVars, genVars, cssVars, storeVars, versionVars>>

CallResolveUrl ==
    /\ fnCall.fn = "resolveUrl"
    /\ ~fnDone
    /\ fnDone' = TRUE
    /\ fnResult' = resolveUrl(fnCall.arg.baseUrl, fnCall.arg.url)
    /\ UNCHANGED <<now, fnCall, scrapeVars, genVars, cssVars, storeVars, versionVars>>

CallFindLogo ==
    /\ fnCall.fn = "findLogo"
    /\ ~fnDone
    /\ fnDone' = TRUE
    /\ fnResult' = findLogo(LogoSrc(fnCall.arg.doc, fnCall.arg.brand))
    /\ UNCHANGED <<now, fnCall, scrapeVars, genVars, cssVars, storeVars, versionVars>>

FnInit ==
    /\ \/ \E code \in CodeInputs :
            fnCall = [fn |-> "cleanGeneratedCode", arg |-> code]
       \/ \E baseUrl \in BaseUrls, url \in UrlInputs :
            fnCall = [fn |-> "resolveUrl", arg |-> [baseUrl |-> baseUrl, url |-> url]]
       \/ \E doc \in Documents, brand \in Brands :
            fnCall = [fn |-> "findLogo", arg |-> [doc |-> doc, brand |-> brand]]
       \/ \E doc \in ElementDocuments :
            fnCall = [fn |-> "findImages", arg |-> doc]
    /\ fnDone = FALSE
    /\ fnResult = <<>>

\* no function is called on its own
FnOff ==
    /\ fnCall = NoFnCall
    /\ fnDone = FALSE
    /\ fnResult = <<>>

-----------------------------------------------------------------------------
(* createVersion and setCurrentVersion: two callers against the versions
   table.  A call runs from one await to the next in one step; the table
   applies each request when it settles. *)

MaxVersionCalls == 3

Projects == {"p1", "p2"}
VersionCallers == {1, 2}

Version(project, isCurrent) == [project_id |-> project, is_current |-> isCurrent]

NoVersionCall == [pc |-> "idle", op |-> "none", project |-> "p1", isCurrent |-> FALSE,
                  versionId |-> 0, before |-> {}, alone |-> TRUE]

\* the ids of the versions of the project that are current
CurrentOf(rows, project) ==
    {id \in 1..Len(rows) : rows[id].project_id = project /\ rows[id].is_current}

\* update({ is_current: false }).eq('project_id', projectId) (lines 104-107, 140-143)
ClearCurrent(rows, project) ==
    [id \in 1..Len(rows) |->
        IF rows[id].project_id = project
        THEN [rows[id] EXCEPT !.is_current = FALSE] ELSE rows[id]]

\* update({ is_current: true }).eq('id', versionId) (lines 146-149)
SetCurrent(rows, project, versionId) ==
    [id \in 1..Len(rows) |->
        IF id = versionId THEN [rows[id] EXCEPT !.is_current = TRUE] ELSE rows[id]]

\* a call starts: createVersion with is_current issues the clearing update
\* (lines 103-108), without it the insert (lines 110-114); setCurrentVersion
\* issues the clearing update (lines 140-143)
VersionStart(c) ==
    /\ verCall[c].pc \in {"idle", "done", "threw"}
    /\ verStarted < MaxVersionCalls
    /\ verStarted' = verStarted + 1
    /\ \E project \in Projects :
         LET started(op, isCurrent, versionId) ==
                 [pc |-> IF op = "createVersion" /\ ~isCurrent THEN "writing" ELSE "clearing",
                  op |-> op, project |-> project, isCurrent |-> isCurrent,
                  versionId |-> versionId,
                  before |-> CurrentOf(versions, project),
                  alone |-> \A d \in VersionCallers \ {c} :
                               verCall[d].pc \notin {"clearing", "writing"}]
             others == [d \in VersionCallers |-> [verCall[d] EXCEPT !.alone = FALSE]]
         IN  \/ \E isCurrent \in BOOLEAN :
                  verCall' = [others EXCEPT ![c] = started("createVersion", isCurrent, 0)]
             \/ \E versionId \in 1..(Len(versions) + 1) :
                  verCall' = [others EXCEPT ![c] = started("setCurrentVersion", FALSE, versionId)]
    /\ UNCHANGED <<now, versions, scrapeVars, genVars, cssVars, storeVars, fnVars>>

\* the clearing update settles; its result is not inspected (lines 104-107,
\* 140-143), then the insert or the final update is issued
VersionCleared(c) ==
    /\ verCall[c].pc = "clearing"
    /\ \E outcome \in {"ok", "error"} :
         versions' = IF outcome = "ok"
                     THEN ClearCurrent(versions, verCall[c].project) ELSE versions
    /\ verCall' = [verCall EXCEPT ![c].pc = "writing"]
    /\ UNCHANGED <<now, verStarted, scrapeVars, genVars, cssVars, storeVars, fnVars>>

\* the insert (lines 110-117) or the final update (lines 146-153) settles:
\* an error, or an update that matches no row, makes the call throw
VersionWritten(c) ==
    /\ verCall[c].pc = "writing"
    /\ \E outcome \in {"ok", "error"} :
         LET call == verCall[c]
             matched == call.versionId \in 1..Len(versions)
         IN  IF outcome = "error" \/ (call.op = "setCurrentVersion" /\ ~matched)
             THEN /\ verCall' = [verCall EXCEPT ![c].pc = "threw"]
                  /\ UNCHANGED versions
             ELSE /\ verCall' = [verCall EXCEPT ![c].pc = "done"]
                  /\ versions' =
                       IF call.op = "createVersion"
                       THEN Append(versions, Version(call.project, call.isCurrent))
                       ELSE SetCurrent(versions, call.project, call.versionId)
    /\ UNCHANGED <<now, verStarted, scrapeVars, genVars, cssVars, storeVars, fnVars>>

\* the table when the first call starts: empty, or one current version for
\* every project
VersionsInit ==
    /\ versions \in { <<>>, <<Version("p1", TRUE), Version("p2", TRUE)>> }
    /\ verCall = [c \in VersionCallers |-> NoVersionCall]
    /\ verStarted = 0

\* neither function is called
VersionsOff ==
    /\ versions = <<>>
    /\ verCall = [c \in VersionCallers |-> NoVersionCall]
    /\ verStarted = 0

-----------------------------------------------------------------------------
(* Specifications *)

\* one call of scrapeWebsite
Init ==
    /\ now = StartOfTime
    /\ ScrapeInit
    /\ GenOff
    /\ CssOff
    /\ StoreOff
    /\ FnOff
    /\ VersionsOff

Next ==
    \/ ScrapeStart
    \/ FetchResponse
    \/ BackoffDone
    \/ InlineStylesheets
    \/ Extract
    \/ Store
    \/ LogDone
    \/ ScrapeTick

Spec == Init /\ [][Next]_vars

\* generation calls of two callers
GenSpecInit ==
    /\ now = StartOfTime
    /\ ScrapeOff
    /\ GenInit
    /\ CssOff
    /\ StoreOff
    /\ FnOff
    /\ VersionsOff

GenNext ==
    \/ \E c \in Callers : GenStart(c)
    \/ \E c \in Callers : RateWaitDone(c)
    \/ \E c \in Callers : Completion(c)
    \/ \E c \in Callers : DelayDone(c)
    \/ GenTick

GenSpec == GenSpecInit /\ [][GenNext]_vars

\* the application: a scrape, generation calls, or both with their API keys
\* or the URL missing
AppInit ==
    /\ now = StartOfTime
    /\ CssOff
    /\ StoreOff
    /\ FnOff
    /\ VersionsOff
    /\ \/ ScrapeInit /\ GenOff
       \/ ScrapeOff /\ GenInit
       \/ ScrapeInit /\ (~sbApiKey \/ ~urlValid) /\ GenInit /\ ~openaiKey

AppNext ==
    \/ ScrapeStart
    \/ FetchResponse
    \/ BackoffDone
    \/ InlineStylesheets
    \/ Extract
    \/ Store
    \/ LogDone
    \/ ScrapeTick
    \/ \E c \in Callers : GenStart(c)
    \/ \E c \in Callers : RateWaitDone(c)
    \/ \E c \in Callers : Completion(c)
    \/ \E c \in Callers : DelayDone(c)
    \/ GenTick

AppSpec == AppInit /\ [][AppNext]_vars

\* the stylesheets of one fetched page are inlined
CssSpecInit ==
    /\ now = StartOfTime
    /\ ScrapeOff
    /\ GenOff
    /\ CssInit
    /\ StoreOff
    /\ FnOff
    /\ VersionsOff

CssNext ==
    \/ CssStart
    \/ \E p \in DOMAIN cssFetches : CssResponse(p)
    \/ CssInline

CssSpec == CssSpecInit /\ [][CssNext]_vars

\* one call of storeProjectAssets
StoreSpecInit ==
    /\ now = StartOfTime
    /\ ScrapeOff
    /\ GenOff
    /\ CssOff
    /\ StoreInit
    /\ FnOff
    /\ VersionsOff

StoreNext ==
    \/ AssetsStart
    \/ AssetsLogoInserted
    \/ \E k \in 1..Len(saInserts) : AssetsImageInserted(k)

StoreSpec == StoreSpecInit /\ [][StoreNext]_vars

\* one call of cleanGeneratedCode, resolveUrl, findLogo or findImages
FnSpecInit ==
    /\ now = StartOfTime
    /\ ScrapeOff
    /\ GenOff
    /\ CssOff
    /\ StoreOff
    /\ FnInit
    /\ VersionsOff

FnNext ==
    \/ CallCleanGeneratedCode
    \/ CallResolveUrl
    \/ CallFindLogo
    \/ CallFindImages

FnSpec == FnSpecInit /\ [][FnNext]_vars

\* calls of createVersion and setCurrentVersion by two callers
VersionSpecInit ==
    /\ now = StartOfTime
    /\ ScrapeOff
    /\ GenOff
    /\ CssOff
    /\ StoreOff
    /\ FnOff
    /\ VersionsInit

VersionNext ==
    \/ \E c \in VersionCallers : VersionStart(c)
    \/ \E c \in VersionCallers : VersionCleared(c)
    \/ \E c \in VersionCallers : VersionWritten(c)

VersionSpec == VersionSpecInit /\ [][VersionNext]_vars

-----------------------------------------------------------------------------
(* Properties of scrapeWebsite *)

QuotaReported ==
    /\ sbFailures # <<>>
    /\ sbFailures[Len(sbFailures)].message = "API_LIMIT_REACHED"

\* C1: scrapeWebsite never throws to its caller: whatever the page fetch,
\* the extraction, the asset storage and the log insert do, no error leaves
\* the call, and a call that has ended has returned a style profile.
C1_NeverThrows ==
    /\ sPc # "threw"
    /\ sPc = "done" => scrapeResult # NoResult

\* a call that returned although storing an asset and the log insert threw
C1_Witness ==
    /\ sPc = "done"
    /\ scrapeError = "Failed to insert asset"
    /\ logInserts = <<"throw">>

\* C2 as stated: every call of scrapeWebsite has written exactly one
\* scraping-log record when it returns.
C2_ExactlyOneLogRecord ==
    sPc = "done" => Len(scraping_logs) = 1

\* C2 as amended: every call of scrapeWebsite issues exactly one
\* scraping-log insert before it returns, on every path and whatever the
\* number of page requests; the record exists exactly when that insert
\* succeeded.
C2_ExactlyOneLogInsert ==
    /\ Len(logInserts) <= 1
    /\ sPc = "done" =>
         /\ Len(logInserts) = 1
         /\ Len(scraping_logs) = (IF logInserts[1] = "ok" THEN 1 ELSE 0)

\* a call that made three page requests and wrote its one record
C2_Witness ==
    /\ sPc = "done"
    /\ Len(sbRequests) = 3
    /\ logInserts = <<"ok">>
    /\ Len(scraping_logs) = 1

\* C3: when the page fetch reports quota exhaustion, scrapeWebsite returns
\* exactly the default profile (DEFAULT_STYLE, no logo, the fallback images)
\* and the log record it writes has success = false and
\* using_default_styles = true.
C3_QuotaReturnsDefault ==
    (QuotaReported /\ sPc = "done") =>
        /\ scrapeResult = DEFAULT_STYLE
        /\ scrapeResult.logo = Undefined
        /\ scrapeResult.images = FALLBACK_IMAGES
        /\ Len(logInserts) = 1
        /\ pendingLog.success = FALSE
        /\ pendingLog.using_default_styles = TRUE
        /\ \A i \in 1..Len(scraping_logs) :
             /\ scraping_logs[i].success = FALSE
             /\ scraping_logs[i].using_default_styles = TRUE

\* quota exhaustion reported on a retry, the record written
C3_Witness ==
    /\ QuotaReported
    /\ sPc = "done"
    /\ Len(sbRequests) = 2
    /\ Len(scraping_logs) = 1

\* C8: a non-success response whose body indicates quota exhaustion fails
\* at once with the quota-exhausted error and is never retried, whatever its
\* HTTP status and on whichever attempt it arrives.
C8_QuotaBodyNeverRetried ==
    \A i \in 1..Len(sbFailures) :
        Includes(sbFailures[i].body, QuotaMarker) =>
            /\ sbFailures[i].message = "API_LIMIT_REACHED"
            /\ Len(sbRequests) = i
            /\ sPc # "backoff"

\* C9: a failure of the page fetch that is not quota exhaustion is retried
\* at most 2 more times (at most 3 requests), retry k follows a wait of
\* 2 seconds times k, and after the third failed request the error reaches
\* scrapeWebsite.
C9_RetryBackoff ==
    /\ Len(sbRequests) <= 3
    /\ \A k \in 1..Len(sbRequests) :
         /\ sbRequests[k].retryCount = k - 1
         /\ sbRequests[k].waited >= 2000 * (k - 1)
    /\ sPc = "backoff" =>
         /\ Len(sbFailures) = retryCount + 1
         /\ wakeAt = failedAt + 2000 * Len(sbFailures)
    /\ Len(sbFailures) = 3 =>
         /\ sPc \in {"logFailure", "done"}
         /\ scrapeError = sbFailures[3].message

\* three failed requests, then the call has ended
C9_Witness ==
    /\ Len(sbFailures) = 3
    /\ Len(sbRequests) = 3
    /\ sPc = "done"

IsHttpUrl(u) ==
    StartsWith(u, <<"http:", "//">>) \/ StartsWith(u, <<"https:", "//">>)

Range(seq) == {seq[i] : i \in 1..Len(seq)}

\* C11: every style profile returned by scrapeWebsite, on success and on
\* every failure path, has at most 5 colors, at most 3 fonts and at most 5
\* images.
C11_ProfileCaps ==
    sPc = "done" =>
        /\ Len(scrapeResult.colors) <= 5
        /\ Len(scrapeResult.fonts) <= 3
        /\ Len(scrapeResult.images) <= 5

\* a successful scrape of a document with more colors, fonts and images than
\* the caps: the profile holds 5 scraped colors, 3 scraped fonts and 5 scraped
\* images
C11_Witness ==
    /\ sPc = "done"
    /\ scrapeError = ""
    /\ Len(scrapeResult.colors) = 5 /\ scrapeResult.colors # DEFAULT_STYLE.colors
    /\ Len(scrapeResult.fonts) = 3 /\ scrapeResult.fonts # DEFAULT_STYLE.fonts
    /\ Len(scrapeResult.images) = 5
    /\ Range(scrapeResult.images) \cap Range(FALLBACK_IMAGES) = {}

\* C12: in every style profile returned by scrapeWebsite the logo and each
\* image URL is empty or absent or an absolute http:// or https:// URL,
\* whatever src values the scraped document holds.
C12_UrlsHttpOrEmpty ==
    sPc = "done" =>
        /\ ~Truthy(scrapeResult.logo) \/ IsHttpUrl(scrapeResult.logo)
        /\ \A i \in 1..Len(scrapeResult.images) :
             scrapeResult.images[i] = <<>> \/ IsHttpUrl(scrapeResult.images[i])

\* C13: when extraction finds zero usable images in a successfully fetched
\* page, the images of the returned profile are the built-in fallback image
\* list, in the same order.
C13_NoImagesGivesFallback ==
    (sPc = "done" /\ "Extracting" \in Range(steps) /\ extracted.scraped = <<>>) =>
        scrapeResult.images = FALLBACK_IMAGES

\* a successful scrape that found a logo but no usable image
C13_Witness ==
    /\ sPc = "done"
    /\ scrapeError = ""
    /\ extracted.scraped = <<>>
    /\ Truthy(scrapeResult.logo)
    /\ scrapeResult.images = FALLBACK_IMAGES

\* C14: when scrapeWebsite fails for a reason other than quota exhaustion
\* (malformed URL, missing key, upstream error after the retries, storage
\* exception), it returns exactly the default profile and its log record has
\* success = false, using_default_styles = true and the failure's message in
\* errors.
C14_OtherFailureReturnsDefault ==
    (sPc = "done" /\ scrapeError # "" /\ scrapeError # "API_LIMIT_REACHED") =>
        /\ scrapeResult = DEFAULT_STYLE
        /\ Len(logInserts) = 1
        /\ pendingLog.success = FALSE
        /\ pendingLog.using_default_styles = TRUE
        /\ scrapeError \in Range(pendingLog.errors)
        /\ \A i \in 1..Len(scraping_logs) :
             /\ scraping_logs[i].success = FALSE
             /\ scraping_logs[i].using_default_styles = TRUE
             /\ scrapeError \in Range(scraping_logs[i].errors)

\* an upstream error after three requests, logged
C14_Witness ==
    /\ sPc = "done"
    /\ Len(sbFailures) = 3
    /\ ~QuotaReported
    /\ Len(scraping_logs) = 1
    /\ scraping_logs[1].errors = <<scrapeError>>

\* the step sequences of a scrape: success or a failure of the storage, a
\* failure of the fetch, a failure of the extraction
Runs ==
    { <<"Fetching", "Parsing", "Extracting", "Storing", "Logging", "Done">>,
      <<"Fetching", "Logging", "Done">>,
      <<"Fetching", "Parsing", "Extracting", "Logging", "Done">> }

\* C15: a scrape goes through Fetching, Parsing, Extracting, Storing,
\* Logging, Done in that order, and a failure in any step goes directly to
\* Logging and then Done with the default profile: after a failed fetch no
\* extraction and no asset storage happens, and the log record is written
\* after the last pipeline step that ran and before the profile is returned.
C15_PipelineOrder ==
    /\ \E run \in Runs : IsPrefix(steps, run)
    /\ (scrapeError # "" /\ sPc = "done") => scrapeResult = DEFAULT_STYLE
    /\ (scrapeError # "" /\ "Parsing" \notin Range(steps)) =>
          /\ extracted = NoExtraction
          /\ assets = <<>>
          /\ processedAssets = NoAssets
    /\ sPc \in {"logSuccess", "logFailure"} =>
          /\ steps[Len(steps)] = "Logging"
          /\ logInserts = <<>>
          /\ scrapeResult = NoResult
    /\ logInserts # <<>> =>
          /\ sPc = "done"
          /\ SubSeq(steps, Len(steps) - 1, Len(steps)) = <<"Logging", "Done">>

\* a storage exception after extraction: logged, then the default profile
C15_Witness ==
    /\ steps = <<"Fetching", "Parsing", "Extracting", "Storing", "Logging", "Done">>
    /\ scrapeError = "Failed to insert asset"
    /\ logInserts = <<"ok">>
    /\ scrapeResult = DEFAULT_STYLE

-----------------------------------------------------------------------------
(* Properties of the stylesheet inlining *)

\* the text of the style tag that the inlining added, empty when it added none
Inlined == IF cssHtml.styleTags = <<>> THEN <<>> ELSE cssHtml.styleTags[1]

Occurrences(text, piece) == Cardinality({k \in 1..Len(text) : text[k] = piece})

\* C16: a failure to fetch one stylesheet, linked or imported, never fails
\* the inlining: that stylesheet contributes the empty text, and the text of
\* every stylesheet that was fetched is still inlined.
C16_StylesheetFailureNotFatal ==
    /\ cssPc # "threw"
    /\ cssPc = "done" =>
         /\ \A p \in DOMAIN cssFetches :
              cssFetches[p].outcome = "failed" => StylesheetText(p) = <<>>
         /\ \A sheet \in Sheets :
              Occurrences(Inlined, sheet) =
                 Cardinality({p \in DOMAIN cssFetches :
                                /\ cssFetches[p].outcome = "ok"
                                /\ cssFetches[p].sheet = sheet})

\* a linked stylesheet and an imported stylesheet failed, the importing
\* stylesheet's text is inlined
C16_Witness ==
    /\ cssPc = "done"
    /\ \E p, q \in DOMAIN cssFetches :
         /\ Len(p) = 1 /\ cssFetches[p].outcome = "failed"
         /\ Len(q) = 2 /\ cssFetches[q].outcome = "failed"
    /\ Inlined = <<SheetA, NewLine>>

\* C17: the resolution of imports always ends: for every import graph,
\* cycles included, a stylesheet is fetched at most 5 levels of imports deep.
C17_ImportDepthCapped ==
    \A p \in DOMAIN cssFetches : Len(p) - 1 <= 5

\* C18: the fetches of the linked stylesheets run concurrently, and the
\* merged text lists the stylesheets' texts in the order of their link
\* elements, for every order in which the fetches complete.
C18_MergedInLinkOrder ==
    /\ cssPc \in {"fetching", "done"} =>
         \A i \in 1..Len(cssSite.links) :
            cssSite.links[i] # NoHref => <<i>> \in DOMAIN cssFetches
    /\ cssPc = "done" =>
         Inlined = JoinLines(SelectSeq([i \in 1..Len(cssSite.links) |-> LinkText(i)],
                                       LAMBDA css : css # <<>>))

\* the second link's stylesheet arrived before the first link's
C18_Witness ==
    /\ cssPc = "done"
    /\ cssResponses = << <<2>>, <<1>> >>
    /\ Inlined = <<SheetA, NewLine, SheetB>>

\* C19: after the inlining the document holds no stylesheet link, for every
\* combination of successes and failures of the stylesheet fetches.
C19_NoStylesheetLinkLeft ==
    cssPc = "done" => cssHtml.links = <<>>

-----------------------------------------------------------------------------
(* Properties of storeProjectAssets *)

AssetUrls ==
    Range(saStored) \cup Range(saInput.images) \cup {saLogo, saInput.logo}
    \cup {saRows[k].url : k \in 1..Len(saRows)}

RowCount(type, url) ==
    Cardinality({k \in 1..Len(saRows) :
        saRows[k] = [project_id |-> ProjectId, type |-> type, url |-> url]})

InsertCount(type, url, outcomes) ==
    Cardinality({k \in 1..Len(saInserts) :
        /\ saInserts[k].type = type
        /\ saInserts[k].url = url
        /\ saInserts[k].outcome \in outcomes})

AnyOutcome == {"pending", "ok", "error", "throw"}

\* the number of input images that were accepted as this URL
StoredCount(url) ==
    IF Truthy(url)
    THEN Cardinality({i \in 1..Len(saStored) : saStored[i] = url}) ELSE 0

LogoCount(url) == IF Truthy(url) /\ url = saLogo THEN 1 ELSE 0

\* C20 as stated: a call of storeProjectAssets that returned has created
\* exactly one asset record per accepted URL, of type logo for the logo and
\* image for each image, with the project id and the accepted URL, none for
\* a rejected URL, and the images it returns are the accepted ones in input
\* order.
C20_OneRecordPerAccepted ==
    saPc = "returned" =>
        /\ \A url \in AssetUrls :
             /\ RowCount("logo", url) = LogoCount(url)
             /\ RowCount("image", url) = StoredCount(url)
        /\ Len(saRows) = Len(FilterTruthy(saStored)) + LogoCount(saLogo)
        /\ saResult.images = FilterTruthy(saStored)

\* C20 as amended: storeProjectAssets issues at most one asset insert per
\* accepted URL, and exactly one when it returns, of type logo for the logo
\* and image for each image, with the project id and the accepted URL, and
\* none for a rejected URL; the records are those of the inserts that
\* succeeded; when it returns, its images are the accepted ones in input
\* order, or the fallback list when none was accepted.
C20_OneInsertPerAccepted ==
    /\ \A k \in 1..Len(saInserts) :
         /\ saInserts[k].project_id = ProjectId
         /\ saInserts[k].type \in {"logo", "image"}
         /\ Truthy(saInserts[k].url)
    /\ \A i \in 1..Len(saStored) :
         Truthy(saStored[i]) =>
            \/ saStored[i] = saInput.images[i]
            \/ saStored[i] = saInput.images[i] \o <<"?w=1200&q=80">>
    /\ \A url \in AssetUrls :
         /\ InsertCount("logo", url, AnyOutcome) <= LogoCount(url)
         /\ InsertCount("image", url, AnyOutcome) <= StoredCount(url)
         /\ RowCount("logo", url) = InsertCount("logo", url, {"ok"})
         /\ RowCount("image", url) = InsertCount("image", url, {"ok"})
    /\ saPc = "returned" =>
         /\ \A url \in AssetUrls :
              /\ InsertCount("logo", url, {"ok", "error"}) = LogoCount(url)
              /\ InsertCount("image", url, {"ok", "error"}) = StoredCount(url)
         /\ Len(saStored) = Len(saInput.images)
         /\ saResult.logo = saLogo
         /\ saResult.images = IF FilterTruthy(saStored) = <<>>
                              THEN STORAGE_FALLBACK_IMAGES
                              ELSE FilterTruthy(saStored)

\* a logo and two of three images accepted, the second image's record
\* written before the first's, the images returned in input order
C20_Witness ==
    /\ saPc = "returned"
    /\ saInput.images = <<Img1, ImgNoExt, Img2>>
    /\ saRows = << [project_id |-> ProjectId, type |-> "logo", url |-> LogoSvg],
                   [project_id |-> ProjectId, type |-> "image", url |-> Img2],
                   [project_id |-> ProjectId, type |-> "image", url |-> Img1] >>
    /\ saResult = [images |-> <<Img1, Img2>>, logo |-> LogoSvg]

\* C21: an exception while recording one asset does not abort the others:
\* the call never fails, every image is still processed, and when all the
\* inserts have settled the call has returned the accepted assets.
C21_RecordingFailureIsolated ==
    /\ saPc # "threw"
    /\ (\E k \in 1..Len(saInserts) : saInserts[k].outcome = "throw")
          /\ PendingInserts(saInserts) = {} =>
          /\ saPc = "returned"
          /\ Len(saStored) = Len(saInput.images)
          /\ saResult.images = FilterTruthy(saStored)

\* C22: the images returned by storeProjectAssets are never empty: when no
\* input image was accepted, an empty input list included, they are the
\* adapter's built-in fallback list.
C22_ImagesNeverEmpty ==
    saPc = "returned" =>
        /\ saResult.images # <<>>
        /\ (\A i \in 1..Len(saStored) : ~Truthy(saStored[i])) =>
              saResult.images = STORAGE_FALLBACK_IMAGES

\* two input images, both rejected, with an accepted logo
C22_Witness ==
    /\ saPc = "returned"
    /\ saInput.images = <<DataUrl, ImgNoExt>>
    /\ saStored = <<Undefined, Undefined>>
    /\ Truthy(saResult.logo)
    /\ saResult.images = STORAGE_FALLBACK_IMAGES

-----------------------------------------------------------------------------
(* Properties of generateLandingPage and updateLandingPage *)

Failed(call) ==
    call.pc = "done" /\ call.result.error # <<"undefined">>

Gaps(log) == {log[i + 1] - log[i] : i \in 1..(Len(log) - 1)}

\* C4: a generation call that ends in failure returns the fallback template
\* built from the style profile as html, never an empty html, and the
\* message of the last error as error.
C4_FailureReturnsFallback ==
    \A c \in Callers :
        Failed(gen[c]) =>
            /\ gen[c].result.html = getFallbackTemplate(gen[c].style)
            /\ gen[c].result.html # <<>>
            /\ gen[c].result.error = gen[c].errors[Len(gen[c].errors)]

\* C5: one generation call issues at most 3 provider requests, whatever
\* retryable errors the provider returns, and none after one has succeeded.
C5_AtMostThreeRequests ==
    \A c \in Callers :
        /\ gen[c].requests <= 3
        /\ gen[c].attempts <= 3
        /\ Len(gen[c].errors) >= 3 => gen[c].pc = "done"
        /\ (gen[c].pc = "done" /\ ~Failed(gen[c])) =>
               gen[c].requests = Len(gen[c].errors) + 1

\* a call that succeeded on its third request
C5_Witness ==
    \E c \in Callers :
        /\ gen[c].pc = "done"
        /\ ~Failed(gen[c])
        /\ gen[c].requests = 3

\* C6: when generation calls are issued one after another, any two
\* consecutive provider requests are at least 20 seconds apart.
C6_SequentialCallsSpaced ==
    ~overlap => \A gap \in Gaps(providerLog) : gap >= 20000

\* a generate call with a retry, then an update call, one after the other
C6_Witness ==
    /\ ~overlap
    /\ gen[1].pc = "done" /\ gen[1].kind = "generate" /\ gen[1].requests = 2
    /\ gen[2].pc = "done" /\ gen[2].kind = "update" /\ gen[2].requests = 1
    /\ Len(providerLog) = 3

\* C7: also when generation calls are in flight at the same time, no two
\* provider requests are issued less than 20 seconds apart.
C7_NoBurst ==
    \A gap \in Gaps(providerLog) : gap >= 20000

-----------------------------------------------------------------------------
(* Preconditions *)

\* C10: precondition failures are raised before any network request and are
\* never retried: without the rendering-proxy key or with a malformed URL
\* the page fetch issues no request, and without the text-generation key a
\* generation call issues no provider request and makes a single attempt.
C10_PreconditionsFailFast ==
    /\ (sPc # "off" /\ (~sbApiKey \/ ~urlValid)) =>
          /\ sbRequests = <<>>
          /\ sbFailures = <<>>
          /\ retryCount = 0
          /\ sPc \in {"idle", "logFailure", "done"}
    /\ ~openaiKey =>
          /\ providerLog = <<>>
          /\ \A c \in Callers :
               /\ gen[c].requests = 0
               /\ gen[c].attempts <= 1
               /\ gen[c].retries = 0
               /\ gen[c].pc # "delay"

\* a scrape and a generation call that both ended on a missing key
C10_Witness ==
    /\ sPc = "done"
    /\ scrapeError = "ScrapingBee API key is not configured"
    /\ \E c \in Callers :
         /\ gen[c].pc = "done"
         /\ gen[c].attempts = 1
         /\ gen[c].errors = <<KeyMissingMessage>>

\* The four markers a retryable error message carries according to the
\* catch block of generateLandingPage (lines 316-320).
RetryMarkers == {"rate_limit", "timeout", "network", "internal_error"}

IndicatesRetry(message) == \E m \in RetryMarkers : Includes(message, m)

\* C23: generateLandingPage and updateLandingPage classify errors alike: an
\* error is followed by another attempt only if its message carries one of the
\* four markers, and an error that ends a call before the third failure
\* carries none of them.
C23_SameClassification ==
    \A c \in Callers :
        \A i \in 1..Len(gen[c].errors) :
            /\ i < Len(gen[c].errors) => IndicatesRetry(gen[c].errors[i])
            /\ (i = Len(gen[c].errors) /\ gen[c].pc = "done" /\ i < MAX_RETRIES)
                  => ~IndicatesRetry(gen[c].errors[i])

C24_WitnessNoKey ==
    /\ gen[1].pc = "done" /\ gen[1].kind = "update"
    /\ gen[1].errors = <<KeyMissingMessage>>
    /\ gen[1].attempts = 1 /\ gen[1].requests = 0 /\ gen[1].waits = <<>>

\* C29: the n-th retryable failure (n = 1, 2) is followed by a wait of
\* RETRY_DELAY * n before the loop continues, every request after the first
\* follows such a wait, the timer of a waiting call is set no later than
\* RETRY_DELAY * n from the current time, and the third failure is followed by
\* no wait.
C29_BackoffGrowsLinearly ==
    \A c \in Callers :
        /\ \A n \in 1..Len(gen[c].waits) : gen[c].waits[n] = RETRY_DELAY * n
        /\ Len(gen[c].waits) < MAX_RETRIES
        /\ gen[c].requests <= Len(gen[c].waits) + 1
        /\ gen[c].pc = "delay" =>
              /\ gen[c].retries \in 1..(MAX_RETRIES - 1)
              /\ Len(gen[c].waits) = gen[c].retries
              /\ Len(gen[c].errors) = gen[c].retries
              /\ gen[c].wakeAt <= now + RETRY_DELAY * gen[c].retries
              /\ gen[c].wakeAt > StartOfTime + (RETRY_DELAY * gen[c].retries) - 1
        /\ Len(gen[c].errors) = MAX_RETRIES =>
              /\ gen[c].pc = "done"
              /\ Len(gen[c].waits) = MAX_RETRIES - 1

\* three rate-limit failures in a row: waits of 5 s and 10 s, none after the third
C29_Witness ==
    /\ gen[1].pc = "done" /\ gen[1].kind = "generate"
    /\ Len(gen[1].errors) = MAX_RETRIES
    /\ gen[1].requests = MAX_RETRIES
    /\ gen[1].waits = <<RETRY_DELAY, 2 * RETRY_DELAY>>

\* C30: the colour and font extractors never return an empty list: what
\* extractColors and extractFonts returned for the parsed document (lines
\* 505-506) holds at least one colour and at least one font family.
C30_ExtractorsNeverEmpty ==
    sPc = "store" => extracted.colors # <<>> /\ extracted.fonts # <<>>

-----------------------------------------------------------------------------
(* Properties of cleanGeneratedCode, resolveUrl and findLogo *)

Returned(fn) == fnDone /\ fnCall.fn = fn

\* C25: cleanGeneratedCode is idempotent: cleaning what it returned gives
\* the same text again.
C25_CleanIdempotent ==
    Returned("cleanGeneratedCode") => cleanGeneratedCode(fnResult) = fnResult

\* text is content without its leading and trailing whitespace
IsTrimOf(text, content) ==
    /\ text # <<>> => text[1] \notin Whitespace /\ text[Len(text)] \notin Whitespace
    /\ \E i \in 0..Len(content), j \in 0..Len(content) :
          /\ i + Len(text) + j = Len(content)
          /\ text = SubSeq(content, i + 1, i + Len(text))
          /\ \A k \in 1..Len(content) :
                (k <= i \/ k > i + Len(text)) => content[k] \in Whitespace

\* C26: for content without a backtick, cleanGeneratedCode returns the
\* trimmed content, whether it is given the content itself or the content
\* wrapped in a code fence with or without html.
C26_FenceStripped ==
    Returned("cleanGeneratedCode") =>
        \A c \in CodeTexts(CodeChars \ {"b"}, MaxCodeLen) :
            fnCall.arg \in {c, Fence(c, TRUE), Fence(c, FALSE)} => IsTrimOf(fnResult, c)

\* the fenced content is surrounded by whitespace of its own
C26_Witness ==
    /\ Returned("cleanGeneratedCode")
    /\ fnCall.arg = Fence(<<"s", "x", "h", "n">>, TRUE)
    /\ fnResult = <<"x", "h">>

\* C27 as stated: for a document of a brand-qualified header image and a
\* generic .logo image, findLogo returns the header image when the hint
\* matches it, and the .logo image when there is no hint or it matches nothing.
TheClaimedLogo(header, generic, brand) ==
    IF brand # NoBrand /\ ContainsSeq(header.src, <<Lower(brand)>>)
    THEN header.src ELSE SrcOf(generic)

IsBrandHeader(img) ==
    img.place = "header" /\ ~img.inLogo /\ Truthy(img.src) /\ ContainsSeq(img.src, <<"acme">>)

IsGenericLogo(img) == img.place = "body" /\ img.inLogo /\ Truthy(SrcOf(img))

C27_BrandThenGeneric ==
    Returned("findLogo") =>
        LET doc == fnCall.arg.doc
        IN  \A h, g \in 1..Len(doc) :
               (Len(doc) = 2 /\ IsBrandHeader(doc[h]) /\ IsGenericLogo(doc[g])) =>
                  fnResult = resolveUrl(DocBaseURI,
                                        TheClaimedLogo(doc[h], doc[g], fnCall.arg.brand))

\* the header image matches a generic header strategy, which precedes .logo img
IsHeaderLogo(img) ==
    img.place = "header" /\ (ContainsSeq(img.src, <<"logo">>) \/ ContainsSeq(img.alt, <<"logo">>))

\* C27 amended: with a hint, a src found by a brand strategy is returned
\* before any generic one; for the two-image document, the header image is
\* returned when the hint matches it, and otherwise the first generic match:
\* the header image if its src or alt holds "logo", else the .logo image.
C27_FirstMatchWins ==
    Returned("findLogo") =>
        LET doc == fnCall.arg.doc
            brand == fnCall.arg.brand
            byBrand == FirstSrc(doc, brandSelectors(Lower(brand)))
        IN  /\ (brand # NoBrand /\ Truthy(byBrand)) =>
                  fnResult = resolveUrl(DocBaseURI, byBrand)
            /\ \A h, g \in 1..Len(doc) :
                  (Len(doc) = 2 /\ IsBrandHeader(doc[h]) /\ IsGenericLogo(doc[g])) =>
                     fnResult = resolveUrl(DocBaseURI,
                        IF brand # NoBrand /\ ContainsSeq(doc[h].src, <<Lower(brand)>>)
                        THEN doc[h].src
                        ELSE IF IsHeaderLogo(doc[h]) THEN doc[h].src
                        ELSE SrcOf(doc[g]))

\* without a hint the header image wins over the .logo image before it
C27_Witness ==
    /\ Returned("findLogo")
    /\ fnCall.arg = [doc |-> <<ClassLogo, HeaderBrandLogo>>, brand |-> NoBrand]
    /\ fnResult = Origin(DocBaseURI) \o HeaderBrandLogo.src

\* C28 as stated: resolveUrl returns the empty text for an empty, data: or
\* unresolvable address, an http(s) address unchanged, a protocol-relative
\* one with https: in front, any other address resolved against the base,
\* and never throws.
Resolved(baseUrl, url) ==
    IF NewURL(url, baseUrl) = <<"throws">> THEN <<>> ELSE NewURL(url, baseUrl)

C28_ResolveUrlCases ==
    Returned("resolveUrl") =>
        LET u == fnCall.arg.url
        IN  /\ fnResult # <<"throws">>
            /\ fnResult =
                 IF u = <<>> \/ StartsWith(u, <<"data:">>) THEN <<>>
                 ELSE IF IsHttpUrl(u) THEN u
                 ELSE IF StartsWith(u, <<"//">>) THEN <<"https:">> \o u
                 ELSE Resolved(fnCall.arg.baseUrl, u)

\* C28 amended: as stated, except that an address naming the development
\* container host is rewritten first: its path from the assets segment on is
\* resolved against the base, also when the address starts with http(s).
C28_ResolveUrlOrder ==
    Returned("resolveUrl") =>
        LET u == fnCall.arg.url
        IN  /\ fnResult # <<"throws">>
            /\ fnResult =
                 IF u = <<>> \/ StartsWith(u, <<"data:">>) THEN <<>>
                 ELSE IF Includes(u, WebContainerHost)
                      THEN Resolved(fnCall.arg.baseUrl, AssetPath(u))
                 ELSE IF IsHttpUrl(u) THEN u
                 ELSE IF StartsWith(u, <<"//">>) THEN <<"https:">> \o u
                 ELSE Resolved(fnCall.arg.baseUrl, u)

C28_Witness ==
    /\ Returned("resolveUrl")
    /\ fnCall.arg = [baseUrl |-> PageUrl, url |-> ContainerAsset]
    /\ fnResult = PageUrl \o <<"/assets/c.webp">>

C28_WitnessUnresolvable ==
    /\ Returned("resolveUrl")
    /\ fnCall.arg.url = BadHostFtp
    /\ fnResult = <<>>

-----------------------------------------------------------------------------
(* Further properties of storeProjectAssets *)

\* what the adapter returns for a candidate URL when only the URL decides:
\* null for a data: URL, an Unsplash URL with the size parameters it lacks,
\* any other URL itself when it parses and its path has an image extension
AcceptedByUrl(url) ==
    IF StartsWith(url, <<"data:">>) THEN Undefined
    ELSE IF Includes(url, UnsplashHost)
    THEN (IF \E i \in 1..Len(url) : url[i] \in QueryPieces
          THEN url ELSE url \o <<"?w=1200&q=80">>)
    ELSE IF Parses(url) /\ Len(url) >= 4 /\ url[4] \in ImageExtPaths THEN url
    ELSE Undefined

\* C32: whether a candidate image URL is accepted depends on the URL alone,
\* whatever the state of the storage service.
C32_AcceptanceByUrlOnly ==
    saPc \in {"images", "returned", "threw"} /\ Len(saStored) = Len(saInput.images) =>
        \A i \in 1..Len(saStored) : saStored[i] = AcceptedByUrl(saInput.images[i])

-----------------------------------------------------------------------------
(* Further properties of scrapeWebsite *)

Succeeded == sPc = "done" /\ scrapeError = ""

\* C33: on a successful scrape the log record describes the returned
\* profile: assets_found.images is the number of its images and
\* assets_found.logo tells whether it has a logo.
C33_LogDescribesProfile ==
    Succeeded =>
        /\ pendingLog.assets_found.images = Len(scrapeResult.images)
        /\ pendingLog.assets_found.logo = Truthy(scrapeResult.logo)

\* C36: the images of a returned profile never include the profile's logo.
C36_LogoNotAmongImages ==
    (Succeeded /\ Truthy(scrapeResult.logo)) =>
        scrapeResult.logo \notin Range(scrapeResult.images)

\* C37: the retries field of the log record is the number of retries the
\* page fetch performed: one less than the number of page requests.
C37_RetriesLogged ==
    (sPc = "done" /\ Len(sbRequests) > 0) =>
        pendingLog.retries = Len(sbRequests) - 1

\* C38: on a successful scrape the profile holds exactly 5 images: the k
\* usable extracted images in extraction order, then the fallback images of
\* positions k+1 to 5.
C38_ExactlyFiveImages ==
    Succeeded =>
        LET k == Len(extracted.scraped)
        IN  /\ k <= MAX_IMAGES
            /\ Len(scrapeResult.images) = 5
            /\ \A i \in 1..5 :
                  scrapeResult.images[i] =
                      IF i <= k THEN extracted.scraped[i] ELSE FALLBACK_IMAGES[i]

\* two usable images out of three extracted, then three fallback images
C38_Witness ==
    /\ Succeeded
    /\ Len(extracted.scraped) = 2
    /\ scrapeResult.images =
          extracted.scraped \o SubSeq(FALLBACK_IMAGES, 3, 5)
    /\ Range(extracted.scraped) \cap Range(FALLBACK_IMAGES) = {}

-----------------------------------------------------------------------------
(* Properties of findImages *)

Resolve(srcs) == {resolveUrl(DocBaseURI, srcs[i]) : i \in 1..Len(srcs)}

\* the rank of the first source that finds the URL: 1 hero, 2 large,
\* 3 content section, 4 background, 5 when none does
SourceRank(doc, url) ==
    IF url \in Resolve(HeroSrcs(doc, heroSelectors)) THEN 1
    ELSE IF url \in Resolve(LargeSrcs(doc)) THEN 2
    ELSE IF url \in Resolve(ContentSrcs(doc, contentSelectors)) THEN 3
    ELSE IF url \in Resolve(BackgroundSrcs(doc)) THEN 4
    ELSE 5

\* C31: findImages returns at most 5 URLs, without duplicates, none
\* containing logo, each found by one of the four sources, and ordered by the
\* rank of the first source that finds them: hero, large, content section,
\* background.
C31_RankedDistinctCapped ==
    Returned("findImages") =>
        /\ Len(fnResult) <= 5
        /\ \A i, j \in 1..Len(fnResult) : fnResult[i] = fnResult[j] => i = j
        /\ \A i \in 1..Len(fnResult) :
              /\ ~ContainsLogo(fnResult[i])
              /\ SourceRank(fnCall.arg, fnResult[i]) <= 4
        /\ \A i, j \in 1..Len(fnResult) :
              i < j => SourceRank(fnCall.arg, fnResult[i]) <= SourceRank(fnCall.arg, fnResult[j])

\* six distinct images, one of them found by the hero and the large source:
\* the hero images first, the background image cut off by the cap
C31_Witness ==
    /\ Returned("findImages")
    /\ fnCall.arg = <<BgDiv, GalleryPhoto, ArticlePhoto, LargePhoto, HeaderPhoto, HeroBanner>>
    /\ fnResult = <<LocalHero, Img2, Img3,
                    Origin(DocBaseURI) \o <<"/assets/c.webp">>, Img1>>

-----------------------------------------------------------------------------
(* Properties of createVersion and setCurrentVersion *)

\* C34: every project has at most one version with is_current = true.
C34_OneCurrentPerProject ==
    \A project \in Projects : Cardinality(CurrentOf(versions, project)) <= 1

\* C35: a call that threw, with no other call started since it began, leaves
\* the current-version flags of its project as they were when it started.
C35_FailedCallKeepsCurrent ==
    \A c \in VersionCallers :
        (verCall[c].pc = "threw" /\ verCall[c].alone) =>
            CurrentOf(versions, verCall[c].project) = verCall[c].before

====
